---- MODULE Spec2Model ----
(***************************************************************************)
(* A model of the flightrecorder capture-to-storage pipeline:              *)
(*   - Storage (crates/flightrecorder/src/storage/mod.rs)                  *)
(*   - ClipboardMonitor / AccessibilityMonitor (crates/flightrecorder-mac) *)
(*   - MacClipboardMonitor / MacAccessibilityMonitor, the adapters         *)
(*     (crates/flightrecorder-mac/src/monitor.rs)                          *)
(*   - PrivacyFilter (crates/flightrecorder/src/privacy/filter.rs)         *)
(*   - the Pipeline Coordinator between the monitors, the filter and the   *)
(*     store, which the crates do not implement yet: its steps follow the  *)
(*     design document                                                     *)
(* Each component has its own specification over the shared variables;     *)
(* the variables a specification does not use keep their initial value.    *)
(***************************************************************************)
EXTENDS Integers, Sequences, FiniteSets, TLC

VARIABLES
    rows,       \* the captures table: a set of rows
    seq,        \* sqlite_sequence of the captures table: largest id ever assigned
    removed,    \* the id and content_hash of each row that delete and prune have removed
    now,        \* the wall clock (Utc::now), in ticks
    st_last,    \* the last Storage call: operation, argument, return value
    st_before,  \* the captures table before the last Storage call
    conn,       \* per Storage handle on one database file: where its insert stands
    mon,        \* a monitor: its kind, configuration and last_hash
    m_last,     \* the last sample given to the monitor and what it returned
    running,    \* the monitor's running flag (Arc<AtomicBool>, shared with its handles)
    lp,         \* where the monitor's start() stands
    pending,    \* the capture start() is sending
    chan,       \* the captures in the channel start() sends on
    rx_alive,   \* whether that channel's receiver still exists
    perm,       \* whether the accessibility permission is granted
    stop_req,   \* stop() was called while the polling loop was running
    since_stop, \* the samples taken and captures emitted since that stop()
    sampled,    \* what the last sample of the polling loop gave, until the loop's next turn
    stops,      \* the stop() calls made since start() set the running flag, up to MaxStops
    exit_cause, \* why the polling loop was left
    wrapped,    \* whether the monitor is run by its Mac adapter (MacClipboardMonitor, ...)
    a_running,  \* the adapter's running flag (shared with MacMonitorHandle)
    a_lp,       \* where the adapter's start() stands
    fwd,        \* the adapter's forwarding task: its position and the data it is sending
    out,        \* the captures in the adapter's output channel
    out_alive,  \* whether the output channel's receiver still exists
    capture_count,  \* the adapter's capture counter
    old,        \* the forwarding task of the adapter's previous run, with its internal channel
    recvd,      \* the timestamps of the last two captures the consumer received
    sends,      \* how many sends on the output channel went through, and how many failed
    handles,    \* MonitorManager.handles: the stop_signal of each MonitorHandle
    schema,     \* the tables and indexes of the database
    version,    \* the schema_version row of the metadata table
    migrated,   \* the migrations run on the database so far, in order
    filt,       \* the PrivacyFilter: its configuration and compiled patterns
    excluded_apps, \* PrivacyFilter.config.excluded_apps
    f_last,     \* the last call on the PrivacyFilter and what it returned
    inbox,      \* the captures emitted by the monitors, not yet taken by the coordinator
    coord       \* the coordinator: its position, the capture in hand, what became of it

schemaVars == <<schema, version, migrated>>
storeVars == <<rows, seq, removed, now, st_last, st_before, schemaVars>>
connVars == <<conn>>
monVars == <<mon, m_last>>
loopVars == <<running, lp, pending, chan, rx_alive, perm, stop_req, since_stop, sampled, stops, exit_cause>>
macVars == <<wrapped, a_running, a_lp, fwd, out, out_alive, capture_count>>
fwdVars == <<old, recvd, sends>>
filterVars == <<excluded_apps, f_last>>
pipeVars == <<filt, inbox, coord, filterVars>>
otherVars == <<connVars, monVars, loopVars, macVars, fwdVars, pipeVars, handles>>
nonStore == <<otherVars, schemaVars>>
nonConn == <<st_last, st_before, now, removed, monVars, loopVars, macVars, fwdVars, pipeVars, handles, schemaVars>>
nonMon == <<storeVars, connVars, loopVars, macVars, fwdVars, pipeVars, handles>>
nonFwd == <<storeVars, connVars, m_last, pipeVars, handles>>
nonLoop == <<nonFwd, fwdVars>>
nonPipe == <<connVars, monVars, loopVars, macVars, fwdVars, handles, schemaVars>>

vars == <<rows, seq, removed, now, st_last, st_before, conn, mon, m_last,
          running, lp, pending, chan, rx_alive, perm, stop_req, since_stop, sampled, stops, exit_cause,
          wrapped, a_running, a_lp, fwd, out, out_alive, capture_count, old, recvd, sends, handles,
          schema, version, migrated, filt, excluded_apps, f_last, inbox, coord>>

----------------------------------------------------------------------------
(* Bounds of the model. *)

MaxId == 3          \* ids assigned by the store stay within 1..MaxId
MaxTime == 1        \* the clock and the timestamps stay within 0..MaxTime
MaxLen == 3         \* samples are texts of at most MaxLen bytes
ChanCap == 1        \* the capacity of the channel a monitor sends on
OutCap == 1         \* the capacity of a Mac adapter's output channel
MaxCount == 4       \* a Mac adapter counts at most MaxCount captures
InboxCap == 1       \* the capacity of the channel into the coordinator
MaxStops == 2       \* the stop() calls of one run are counted up to MaxStops
MaxHandles == 2     \* a MonitorManager holds at most MaxHandles handles
MaxLimit == 2       \* the limit of a query stays within 0..MaxLimit
MaxSince == 2       \* samples and captures after a stop() are counted up to MaxSince

----------------------------------------------------------------------------
(* Values. *)

None == [tag |-> "None"]
Some(v) == [tag |-> "Some", val |-> v]

\* blake3::hash(content.as_bytes()).to_hex(): a deterministic, unsalted digest
\* of the bytes; the digest of a text is kept as a value distinct from the text.
Hash(content) == [blake3 |-> content]

Panic == [tag |-> "Panic"]

StoreContents == {<<"a">>, <<"b">>, <<"a", "b">>}
Times == 0..MaxTime

\* Capture::new(content, capture_type, source_app), with the public timestamp
\* field set by the caller (Utc::now() or a crafted value).
Capture(content, capture_type, source_app, timestamp) ==
    [timestamp |-> timestamp, source_app |-> source_app, content |-> content,
     content_hash |-> Hash(content), capture_type |-> capture_type]

\* The captures handed to the store: each content, from either surface, at
\* any time.
CaptureOrigins == {<<"clipboard", Some("Mail")>>, <<"text_field", None>>}

Captures ==
    {Capture(c, o[1], o[2], ts) : c \in StoreContents, o \in CaptureOrigins,
                                  ts \in Times}

\* The captures made at the present time.
CapturesNow == {c \in Captures : c.timestamp = now}

Ids(table) == {r.id : r \in table}

\* DateTime<Utc>::to_rfc3339, the text kept in the timestamp column and bound
\* to the queries. The clock counts half seconds and starts MaxTime of them
\* into a minute, so that a cutoff before the start of the clock has a text
\* too. The texts differ from the seconds field on: two digits, ".500" for
\* a fraction (none when it is zero) and the "+" of "+00:00"; the model
\* keeps these characters, each as its byte.
TimestampText(t) ==
    LET n == t + MaxTime
        sec == n \div 2
    IN  <<48 + (sec \div 10), 48 + (sec % 10)>>
        \o (IF n % 2 = 0 THEN <<>> ELSE <<46, 53, 48, 48>>)
        \o <<43>>

\* The comparison of two TEXT values in SQLite (BINARY collation): memcmp,
\* then the shorter one first.
RECURSIVE TextLess(_, _)
TextLess(x, y) ==
    IF y = <<>> THEN FALSE
    ELSE IF x = <<>> THEN TRUE
    ELSE IF Head(x) # Head(y) THEN Head(x) < Head(y)
    ELSE TextLess(Tail(x), Tail(y))

\* timestamp < ?1 on the column
TimestampBefore(a, b) == TextLess(TimestampText(a), TimestampText(b))

\* A Rust String is valid UTF-8 and its len() counts bytes. "a" and "b" are
\* one-byte characters; "L" "T" are the lead and the continuation byte of one
\* two-byte character.
Bytes == {"a", "b", "L", "T"}

IsUtf8(t) ==
    \A i \in 1..Len(t) :
        /\ t[i] = "L" => (i < Len(t) /\ t[i + 1] = "T")
        /\ t[i] = "T" => (i > 1 /\ t[i - 1] = "L")

Texts == {t \in UNION {[1..n -> Bytes] : n \in 0..MaxLen} : IsUtf8(t)}

\* str::is_char_boundary(n)
IsCharBoundary(t, n) ==
    \/ n = 0
    \/ n = Len(t)
    \/ n < Len(t) /\ t[n + 1] # "T"

\* The first n bytes of t, or all of t when it is shorter.
BytePrefix(t, n) == SubSeq(t, 1, IF n < Len(t) THEN n ELSE Len(t))

----------------------------------------------------------------------------
(* Storage: one handle (one rusqlite Connection), calls in sequence. *)

\* What is remembered of rows that leave the table.
Gone(table) == {[id |-> r.id, content_hash |-> r.content_hash] : r \in table}

\* A bug that looks only at the newest row (the row with the largest id).
ExistsByHashNewestOnly(table, hash) ==
    \E r \in table : /\ \A q \in table : q.id <= r.id
                     /\ r.content_hash = hash

\* SELECT COUNT(*) FROM captures WHERE content_hash = ?1; count > 0
ExistsByHash(table, hash) ==
    Cardinality({r \in table : r.content_hash = hash}) > 0

\* A table declared without AUTOINCREMENT: the row gets an id one above the
\* largest id the table holds now.
InsertRowReusesId(table, s, capture) ==
    LET top == IF table = {} THEN 0 ELSE CHOOSE i \in Ids(table) : \A j \in Ids(table) : j <= i
    IN  table \cup {[id |-> top + 1, timestamp |-> capture.timestamp,
                     source_app |-> capture.source_app, content |-> capture.content,
                     content_hash |-> capture.content_hash,
                     capture_type |-> capture.capture_type]}

\* INSERT INTO captures (...) VALUES (...): AUTOINCREMENT gives the row an id
\* one above the largest id the table ever held.
InsertRow(table, s, capture) ==
    table \cup {[id |-> s + 1, timestamp |-> capture.timestamp,
                 source_app |-> capture.source_app, content |-> capture.content,
                 content_hash |-> capture.content_hash,
                 capture_type |-> capture.capture_type]}

\* A bug that gives the row of a duplicate the duplicate's timestamp.
InsertCallBumpsTimestamp(capture) ==
    /\ ExistsByHash(rows, capture.content_hash) \/ seq < MaxId
    /\ st_before' = rows
    /\ IF ExistsByHash(rows, capture.content_hash)
       THEN /\ st_last' = [op |-> "insert", arg |-> capture, ret |-> None]
            /\ rows' = {IF r.content_hash = capture.content_hash
                        THEN [r EXCEPT !.timestamp = capture.timestamp] ELSE r : r \in rows}
            /\ UNCHANGED seq
       ELSE /\ rows' = InsertRow(rows, seq, capture)
            /\ seq' = seq + 1
            /\ st_last' = [op |-> "insert", arg |-> capture, ret |-> Some(seq + 1)]
    /\ UNCHANGED <<now, removed>>

\* Storage::insert, on the store
InsertCall(capture) ==
    /\ ExistsByHash(rows, capture.content_hash) \/ seq < MaxId
    /\ st_before' = rows
    /\ IF ExistsByHash(rows, capture.content_hash)
       THEN /\ st_last' = [op |-> "insert", arg |-> capture, ret |-> None]
            /\ UNCHANGED <<rows, seq>>
       ELSE /\ rows' = InsertRow(rows, seq, capture)
            /\ seq' = seq + 1
            /\ st_last' = [op |-> "insert", arg |-> capture, ret |-> Some(seq + 1)]
    /\ UNCHANGED <<now, removed>>

\* A call of Storage::insert
Insert(capture) ==
    /\ InsertCall(capture)
    /\ UNCHANGED nonStore

\* DateTime::parse_from_rfc3339(text), or Utc::now() when the text does not
\* parse.
ParseTimestamp(text) ==
    LET read == {t \in -MaxTime..MaxTime : TimestampText(t) = text}
    IN  IF read = {} THEN now ELSE CHOOSE t \in read : TRUE

\* Storage::row_to_capture: an unknown capture_type is read as clipboard.
RowToCapture(r) ==
    [id |-> Some(r.id),
     timestamp |-> ParseTimestamp(TimestampText(r.timestamp)),
     source_app |-> r.source_app,
     content |-> r.content,
     content_hash |-> r.content_hash,
     capture_type |-> IF r.capture_type \in {"clipboard", "text_field", "keystroke"}
                      THEN r.capture_type ELSE "clipboard"]

\* Storage::get: SELECT ... FROM captures WHERE id = ?1, optional()
Get(table, id) ==
    IF \E r \in table : r.id = id
    THEN Some(RowToCapture(CHOOSE r \in table : r.id = id))
    ELSE None

\* A bug that deletes with id <= ?1.
DeleteUpTo(id) ==
    /\ st_before' = rows
    /\ rows' = {r \in rows : r.id > id}
    /\ st_last' = [op |-> "delete", arg |-> id,
                   ret |-> (Cardinality({r \in rows : r.id <= id}) > 0)]
    /\ removed' = removed \cup Gone(rows \ rows')
    /\ UNCHANGED <<seq, now, nonStore>>

\* Storage::delete
Delete(id) ==
    /\ st_before' = rows
    /\ rows' = {r \in rows : r.id # id}
    /\ st_last' = [op |-> "delete", arg |-> id,
                   ret |-> (Cardinality({r \in rows : r.id = id}) > 0)]
    /\ removed' = removed \cup Gone(rows \ rows')
    /\ UNCHANGED <<seq, now, nonStore>>

\* A bug that deletes the rows at the cutoff too.
PruneOlderThanInclusive(max_age) ==
    LET cutoff == now - max_age
        gone == {r \in rows : ~TimestampBefore(cutoff, r.timestamp)}
    IN  /\ st_before' = rows
        /\ rows' = rows \ gone
        /\ st_last' = [op |-> "prune_older_than", arg |-> max_age, at |-> now,
                       ret |-> Cardinality(gone)]
        /\ removed' = removed \cup Gone(rows \ rows')
        /\ UNCHANGED <<seq, now, nonStore>>

\* Storage::prune_older_than: cutoff = Utc::now() - max_age;
\* DELETE FROM captures WHERE timestamp < cutoff.to_rfc3339()
PruneOlderThan(max_age) ==
    LET cutoff == now - max_age
        gone == {r \in rows : TimestampBefore(r.timestamp, cutoff)}
    IN  /\ st_before' = rows
        /\ rows' = rows \ gone
        /\ st_last' = [op |-> "prune_older_than", arg |-> max_age, at |-> now,
                       ret |-> Cardinality(gone)]
        /\ removed' = removed \cup Gone(rows \ rows')
        /\ UNCHANGED <<seq, now, nonStore>>

\* A bug that orders by timestamp ASC: the n oldest rows.
NewestSetsAscending(table, n) ==
    {K \in SUBSET table :
        /\ Cardinality(K) = (IF n < Cardinality(table) THEN n ELSE Cardinality(table))
        /\ \A k \in K : \A r \in table \ K : k.timestamp <= r.timestamp}

\* SELECT id FROM captures ORDER BY timestamp DESC LIMIT n: any n rows that
\* are at least as new as every row left out (the order among equal
\* timestamps is the engine's choice).
NewestSets(table, n) ==
    {K \in SUBSET table :
        /\ Cardinality(K) = (IF n < Cardinality(table) THEN n ELSE Cardinality(table))
        /\ \A k \in K : \A r \in table \ K : ~TimestampBefore(k.timestamp, r.timestamp)}

\* Storage::prune_keep_recent:
\* DELETE FROM captures WHERE id NOT IN (SELECT id ... LIMIT keep_count)
PruneKeepRecent(keep_count) ==
    \E K \in NewestSets(rows, keep_count) :
        /\ st_before' = rows
        /\ rows' = {r \in rows : r.id \in Ids(K)}
        /\ st_last' = [op |-> "prune_keep_recent", arg |-> keep_count,
                       ret |-> Cardinality(rows) - Cardinality(K)]
        /\ removed' = removed \cup Gone(rows \ rows')
        /\ UNCHANGED <<seq, now, nonStore>>

\* The rows of K in a list, newest first.
SortedLists(K) ==
    {f \in [1..Cardinality(K) -> K] :
        /\ \A i, j \in DOMAIN f : i # j => f[i] # f[j]
        /\ \A i, j \in DOMAIN f : i < j => ~TimestampBefore(f[i].timestamp, f[j].timestamp)}

\* ORDER BY timestamp DESC LIMIT n over the rows that match, read by
\* row_to_capture: the lists of the rows of one of NewestSets, newest first
\* (the order among equal timestamps is the engine's choice).
QueryRows(matching, limit) ==
    UNION {{[i \in DOMAIN f |-> RowToCapture(f[i])] : f \in SortedLists(K)} :
              K \in NewestSets(matching, limit)}

\* The comparison of two characters by LIKE: ASCII letters without case.
Fold(ch) == IF ch = "A" THEN "a" ELSE IF ch = "B" THEN "b" ELSE ch

\* text LIKE pattern in SQLite: % matches any run of characters, _ any one
\* character, every other character itself, ASCII letters without case.
RECURSIVE Like(_, _)
Like(pattern, text) ==
    IF pattern = <<>> THEN text = <<>>
    ELSE IF Head(pattern) = "%"
    THEN Like(Tail(pattern), text) \/ (text # <<>> /\ Like(pattern, Tail(text)))
    ELSE IF text = <<>> THEN FALSE
    ELSE /\ Head(pattern) = "_" \/ Fold(Head(pattern)) = Fold(Head(text))
         /\ Like(Tail(pattern), Tail(text))

\* A read of the table: the call and what it returned.
Read(op, arg, limit, matching) ==
    /\ \E ret \in QueryRows(matching, limit) :
          st_last' = [op |-> op, arg |-> arg, limit |-> limit, ret |-> ret]
    /\ st_before' = rows
    /\ UNCHANGED <<rows, seq, removed, now, nonStore>>

\* Storage::get_recent
GetRecent(limit) == Read("get_recent", None, limit, rows)

\* Storage::get_by_app: WHERE source_app = ?1
GetByApp(app, limit) ==
    Read("get_by_app", app, limit, {r \in rows : r.source_app = Some(app)})

\* Storage::get_by_type: WHERE capture_type = ?1
GetByType(capture_type, limit) ==
    Read("get_by_type", capture_type, limit, {r \in rows : r.capture_type = capture_type})

\* Storage::search: WHERE content LIKE format!("%{query}%")
Search(query, limit) ==
    Read("search", query, limit,
         {r \in rows : Like(<<"%">> \o query \o <<"%">>, r.content)})

\* Storage::get_by_time_range: WHERE timestamp >= ?1 AND timestamp <= ?2
GetByTimeRange(since, until, limit) ==
    Read("get_by_time_range", <<since, until>>, limit,
         {r \in rows : /\ ~TimestampBefore(r.timestamp, since)
                       /\ ~TimestampBefore(until, r.timestamp)})

\* Time passes.
Tick ==
    /\ now < MaxTime
    /\ now' = now + 1
    /\ UNCHANGED <<rows, seq, removed, st_last, st_before, nonStore>>

----------------------------------------------------------------------------
(* The schema and its migrations. *)

CURRENT_VERSION == 1

\* SCHEMA_STATEMENTS: what the CREATE ... IF NOT EXISTS statements create.
SCHEMA_STATEMENTS ==
    {"captures", "idx_captures_timestamp", "idx_captures_hash", "idx_captures_app",
     "idx_captures_type", "metadata"}

\* get_schema_version: 0 when the metadata table has no schema_version row.
GetSchemaVersion(stored) == IF stored = None THEN 0 ELSE stored.val

\* A bug that runs no migration.
PendingMigrationsNone(from_version) == <<>>

\* run_migrations: while current < CURRENT_VERSION { current += 1;
\* run_migration(conn, current) }, as the list of the versions run.
PendingMigrations(from_version) ==
    [i \in 1..(IF from_version < CURRENT_VERSION THEN CURRENT_VERSION - from_version ELSE 0)
        |-> from_version + i]

\* run_migration knows the versions 1..CURRENT_VERSION; migrate_v1 writes its
\* version, and run_migrations writes CURRENT_VERSION after the last one.
InitializeSchema ==
    LET from_version == GetSchemaVersion(version)
    IN  /\ schema' = schema \cup SCHEMA_STATEMENTS
        /\ IF from_version < CURRENT_VERSION
           THEN /\ migrated' = migrated \o PendingMigrations(from_version)
                /\ version' = IF \A i \in DOMAIN PendingMigrations(from_version) :
                                     PendingMigrations(from_version)[i] \in 1..CURRENT_VERSION
                              THEN Some(CURRENT_VERSION) ELSE version
           ELSE UNCHANGED <<migrated, version>>
        /\ st_before' = rows
        /\ st_last' = [op |-> "initialize_schema", arg |-> version, had |-> schema,
                       ran |-> migrated, ret |-> None]
        /\ UNCHANGED <<rows, seq, removed, now, otherVars>>

\* Storage::open_in_memory / Storage::open on a new file: an empty table.
StoreInit ==
    /\ rows = {}
    /\ seq = 0
    /\ removed = {}
    /\ now = 0
    /\ st_last = [op |-> "open", arg |-> None, ret |-> None]
    /\ st_before = {}
    /\ schema = SCHEMA_STATEMENTS
    /\ version = Some(CURRENT_VERSION)
    /\ migrated = PendingMigrations(0)

----------------------------------------------------------------------------
(* Storage: two handles (two Connections) opened on the same database      *)
(* file. Each statement runs in its own implicit transaction, so the       *)
(* SELECT of exists_by_hash and the INSERT of one insert are two steps     *)
(* between which the other handle's statements can run.                    *)

Handles == {"h1", "h2"}

ConnInit == conn = [h \in Handles |-> [pc |-> "idle", arg |-> None, ret |-> None]]

\* Storage::insert up to the return of exists_by_hash
InsertCheck(h, capture) ==
    /\ conn[h].pc = "idle"
    /\ IF ExistsByHash(rows, capture.content_hash)
       THEN conn' = [conn EXCEPT ![h] = [pc |-> "idle", arg |-> capture, ret |-> None]]
       ELSE conn' = [conn EXCEPT ![h] = [pc |-> "insert", arg |-> capture, ret |-> None]]
    /\ UNCHANGED <<rows, seq, nonConn>>

\* Storage::insert from conn.execute(INSERT ...) to the return
InsertExecute(h) ==
    /\ conn[h].pc = "insert"
    /\ seq < MaxId
    /\ rows' = InsertRow(rows, seq, conn[h].arg)
    /\ seq' = seq + 1
    /\ conn' = [conn EXCEPT ![h] = [pc |-> "idle", arg |-> conn[h].arg,
                                    ret |-> Some(seq + 1)]]
    /\ UNCHANGED nonConn

----------------------------------------------------------------------------
(* Monitors: ClipboardMonitor and AccessibilityMonitor, one sample at a    *)
(* time (process_text_with_source, process_field).                         *)

DefaultMinContentLength == 1
DefaultMaxContentLength == 1000000

\* ClipboardMonitor::with_config / AccessibilityMonitor::with_config
MonitorWithConfig(kind, min, max, skip) ==
    [kind |-> kind, min_content_length |-> min, max_content_length |-> max,
     skip_password_fields |-> skip, last_hash |-> None, panicked |-> FALSE]

\* No call of process_text / process_field yet; emitted is the content of
\* the capture the monitor returned last.
NotCalled == [called |-> FALSE, emitted |-> None]

\* ClipboardCapture::new
ClipboardCapture(content, source_app) ==
    [content |-> content, content_hash |-> Hash(content), timestamp |-> now,
     source_app |-> source_app]

\* TextFieldCapture::new
TextFieldCapture(content, source_app, is_password_field) ==
    [content |-> content, content_hash |-> Hash(content), timestamp |-> now,
     source_app |-> source_app, is_password_field |-> is_password_field]

\* if text.len() > max { text[..max].to_string() } else { text }
\* Slicing a str at a byte index that is not a character boundary panics.
Truncate(text, max) ==
    IF Len(text) > max
    THEN IF IsCharBoundary(text, max) THEN Some(SubSeq(text, 1, max)) ELSE Panic
    ELSE Some(text)

\* The step from the hash comparison on, common to both monitors' code;
\* capture is the capture built from content.
Detect(m, content, capture) ==
    LET hash == Hash(content)
    IN  IF m.last_hash = Some(hash)
        THEN [mon |-> m, ret |-> None]
        ELSE [mon |-> [m EXCEPT !.last_hash = Some(hash)],
              ret |-> Some(capture)]

\* A bug that drops nothing for being short.
ProcessTextNoMinimum(m, text, source_app) ==
    LET content == Truncate(text, m.max_content_length)
    IN  IF content = Panic
        THEN [mon |-> [m EXCEPT !.panicked = TRUE], ret |-> Panic]
        ELSE Detect(m, content.val, ClipboardCapture(content.val, source_app))

\* A bug that hashes the sample instead of the truncated content.
ProcessTextHashesSample(m, text, source_app) ==
    LET content == Truncate(text, m.max_content_length)
    IN  IF Len(text) < m.min_content_length
        THEN [mon |-> m, ret |-> None]
        ELSE IF content = Panic
        THEN [mon |-> [m EXCEPT !.panicked = TRUE], ret |-> Panic]
        ELSE IF m.last_hash = Some(Hash(text))
        THEN [mon |-> m, ret |-> None]
        ELSE [mon |-> [m EXCEPT !.last_hash = Some(Hash(text))],
              ret |-> Some(ClipboardCapture(content.val, source_app))]

\* ClipboardMonitor::process_text_with_source
ProcessTextWithSource(m, text, source_app) ==
    LET content == Truncate(text, m.max_content_length)
    IN  IF Len(text) < m.min_content_length
        THEN [mon |-> m, ret |-> None]
        ELSE IF content = Panic
        THEN [mon |-> [m EXCEPT !.panicked = TRUE], ret |-> Panic]
        ELSE Detect(m, content.val, ClipboardCapture(content.val, source_app))

\* A bug that leaves the password policy out.
ProcessFieldIgnoresPolicy(m, field) ==
    LET content == Truncate(field.content, m.max_content_length)
    IN  IF Len(field.content) < m.min_content_length
        THEN [mon |-> m, ret |-> None]
        ELSE IF content = Panic
        THEN [mon |-> [m EXCEPT !.panicked = TRUE], ret |-> Panic]
        ELSE Detect(m, content.val,
                    TextFieldCapture(content.val, field.source_app, field.is_password))

\* AccessibilityMonitor::process_field
ProcessField(m, field) ==
    LET content == Truncate(field.content, m.max_content_length)
    IN  IF field.is_password /\ m.skip_password_fields
        THEN [mon |-> m, ret |-> None]
        ELSE IF Len(field.content) < m.min_content_length
        THEN [mon |-> m, ret |-> None]
        ELSE IF content = Panic
        THEN [mon |-> [m EXCEPT !.panicked = TRUE], ret |-> Panic]
        ELSE Detect(m, content.val,
                    TextFieldCapture(content.val, field.source_app, field.is_password))

\* FocusedTextField
FocusedTextField(content, source_app, is_password) ==
    [content |-> content, source_app |-> source_app, is_password |-> is_password]

\* A call of process_text_with_source on the clipboard monitor. A panic
\* unwinds out of the caller: the monitor takes no further sample.
ProcessText(text, source_app) ==
    /\ mon.kind = "clipboard"
    /\ ~mon.panicked
    /\ LET r == ProcessTextWithSource(mon, text, source_app)
       IN  /\ mon' = r.mon
           /\ m_last' = [called |-> TRUE, sample |-> text, is_password |-> FALSE,
                         prev_hash |-> mon.last_hash, ret |-> r.ret,
                         prev_emitted |-> m_last.emitted,
                         emitted |-> IF r.ret.tag = "Some" THEN Some(r.ret.val.content)
                                     ELSE m_last.emitted]
    /\ UNCHANGED nonMon

\* A call of process_field on the accessibility monitor.
ProcessFocusedField(text, source_app, is_password) ==
    /\ mon.kind = "accessibility"
    /\ ~mon.panicked
    /\ LET r == ProcessField(mon, FocusedTextField(text, source_app, is_password))
       IN  /\ mon' = r.mon
           /\ m_last' = [called |-> TRUE, sample |-> text, is_password |-> is_password,
                         prev_hash |-> mon.last_hash, ret |-> r.ret,
                         prev_emitted |-> m_last.emitted,
                         emitted |-> IF r.ret.tag = "Some" THEN Some(r.ret.val.content)
                                     ELSE m_last.emitted]
    /\ UNCHANGED nonMon

Lengths == 0..MaxLen

\* A monitor of either kind under any configuration of the length limits,
\* min_content_length > max_content_length included.
MonInit ==
    /\ mon \in {MonitorWithConfig("clipboard", min, max, FALSE) :
                    min \in Lengths, max \in Lengths}
           \cup {MonitorWithConfig("accessibility", min, max, skip) :
                    min \in Lengths, max \in Lengths, skip \in BOOLEAN}
    /\ m_last = NotCalled

\* ClipboardMonitor::new: the default configuration.
MonIdle ==
    /\ mon = MonitorWithConfig("clipboard", DefaultMinContentLength,
                               DefaultMaxContentLength, FALSE)
    /\ m_last = NotCalled

----------------------------------------------------------------------------
(* ClipboardMonitor::start and AccessibilityMonitor::start: the polling    *)
(* loop, its stop flag and its output channel. The task suspends at the    *)
(* tick wait and at the send; a sample is taken without suspension.        *)

\* What the surface can hold when it is sampled.
LoopTexts == {<<"a">>, <<"b">>, <<"L", "T">>}
LoopApps == {Some("Mail")}

\* What one sample gives: get_current_text / get_focused_text failing, giving
\* no text, or giving a text with the frontmost application.
Samples ==
    {[tag |-> "Err"], [tag |-> "NoText"]}
    \cup {[tag |-> "Text", text |-> t, app |-> a] : t \in LoopTexts, a \in LoopApps}

MacIdle ==
    /\ a_running = FALSE
    /\ a_lp = "init"
    /\ fwd = [pc |-> "none", data |-> None]
    /\ out = <<>>
    /\ out_alive = TRUE
    /\ capture_count = 0
    /\ old = [pc |-> "none", data |-> None, chan |-> <<>>]
    /\ recvd = <<0, 0>>
    /\ sends = [delivered |-> 0, failed |-> 0]

\* Nothing was sampled or emitted since the stop().
NothingSince == [samples |-> 0, emitted |-> 0]

\* One more counted, up to MaxSince.
Counted(n) == IF n < MaxSince THEN n + 1 ELSE n

LoopIdle ==
    /\ running = FALSE
    /\ lp = "init"
    /\ pending = None
    /\ chan = <<>>
    /\ rx_alive = TRUE
    /\ perm = TRUE
    /\ stop_req = FALSE
    /\ since_stop = NothingSince
    /\ stops = 0
    /\ sampled = "none"
    /\ exit_cause = "none"

InLoop == lp \in {"top", "tick", "send"}

\* A bug that sets the running flag before the permission check.
StartCallSwapsFirst ==
    /\ lp \in {"init", "returned_ok", "returned_err", "cancelled"}
    /\ running' = TRUE
    /\ IF running
       THEN /\ lp' = "returned_ok"
            /\ exit_cause' = "already_running"
       ELSE IF mon.kind = "accessibility" /\ ~perm
       THEN /\ lp' = "returned_err"
            /\ exit_cause' = "no_permission"
       ELSE /\ lp' = "top"
            /\ exit_cause' = "none"
    /\ IF rx_alive
       THEN UNCHANGED <<chan, rx_alive>>
       ELSE chan' = <<>> /\ rx_alive' = TRUE
    /\ stop_req' = FALSE
    /\ since_stop' = NothingSince
    /\ stops' = (IF running' = running THEN stops ELSE 0)
    /\ sampled' = "none"
    /\ UNCHANGED <<mon, pending, perm, nonLoop>>

\* A bug that sets the running flag without looking at its old value.
StartCallIgnoresRunning ==
    /\ lp \in {"init", "returned_ok", "returned_err", "cancelled"}
    /\ IF mon.kind = "accessibility" /\ ~perm
       THEN /\ lp' = "returned_err"
            /\ exit_cause' = "no_permission"
            /\ UNCHANGED running
       ELSE /\ running' = TRUE
            /\ lp' = "top"
            /\ exit_cause' = "none"
    /\ IF rx_alive
       THEN UNCHANGED <<chan, rx_alive>>
       ELSE chan' = <<>> /\ rx_alive' = TRUE
    /\ stop_req' = FALSE
    /\ since_stop' = NothingSince
    /\ stops' = (IF running' = running THEN stops ELSE 0)
    /\ sampled' = "none"
    /\ UNCHANGED <<mon, pending, perm, nonLoop>>

\* start(tx), up to the loop: the permission check (accessibility only), then
\* running.swap(true). tx is the sender of the channel in use, or of a new
\* channel when the receiver of the last one is gone.
StartCall ==
    /\ lp \in {"init", "returned_ok", "returned_err", "cancelled"}
    /\ IF mon.kind = "accessibility" /\ ~perm
       THEN /\ lp' = "returned_err"
            /\ exit_cause' = "no_permission"
            /\ UNCHANGED running
       ELSE IF running
       THEN /\ lp' = "returned_ok"
            /\ exit_cause' = "already_running"
            /\ UNCHANGED running
       ELSE /\ running' = TRUE
            /\ lp' = "top"
            /\ exit_cause' = "none"
    /\ IF rx_alive
       THEN UNCHANGED <<chan, rx_alive>>
       ELSE chan' = <<>> /\ rx_alive' = TRUE
    /\ stop_req' = FALSE
    /\ since_stop' = NothingSince
    /\ stops' = (IF running' = running THEN stops ELSE 0)
    /\ sampled' = "none"
    /\ UNCHANGED <<mon, pending, perm, nonLoop>>

\* The user calls start(tx) on a ClipboardMonitor or AccessibilityMonitor.
Start ==
    /\ ~wrapped
    /\ StartCall
    /\ UNCHANGED macVars

\* A bug that reads the flag on every second pass only.
LoopCheckSkipsRead ==
    /\ lp = "top"
    /\ IF running \/ since_stop.samples = 1
       THEN lp' = "tick" /\ UNCHANGED exit_cause
       ELSE lp' = "exit" /\ exit_cause' = "stop"
    /\ sampled' = "none"
    /\ UNCHANGED <<mon, running, pending, chan, rx_alive, perm, stop_req, since_stop, stops, nonLoop, macVars>>

\* while self.running.load(SeqCst)
LoopCheck ==
    /\ lp = "top"
    /\ IF running
       THEN lp' = "tick" /\ UNCHANGED exit_cause
       ELSE lp' = "exit" /\ exit_cause' = "stop"
    /\ sampled' = "none"
    /\ UNCHANGED <<mon, running, pending, chan, rx_alive, perm, stop_req, since_stop, stops, nonLoop, macVars>>

\* A bug that forgets the last capture when the clipboard holds no text.
ClipboardCheckForgets(m, s) ==
    IF s.tag = "Err" THEN [mon |-> m, ret |-> [tag |-> "Err"]]
    ELSE IF s.tag = "NoText" THEN [mon |-> [m EXCEPT !.last_hash = None], ret |-> None]
    ELSE ProcessTextWithSource(m, s.text, s.app)

\* A bug that takes a failed sample for a reason to leave the loop.
ClipboardCheckEscalates(m, s) ==
    IF s.tag = "Err" THEN [mon |-> m, ret |-> [tag |-> "PermissionDenied"]]
    ELSE IF s.tag = "NoText" THEN [mon |-> m, ret |-> None]
    ELSE ProcessTextWithSource(m, s.text, s.app)

\* ClipboardMonitor::check_for_changes on sample s
ClipboardCheck(m, s) ==
    IF s.tag = "Err" THEN [mon |-> m, ret |-> [tag |-> "Err"]]
    ELSE IF s.tag = "NoText" THEN [mon |-> m, ret |-> None]
    ELSE ProcessTextWithSource(m, s.text, s.app)

\* A bug that reports a missing permission as any other failed sample.
AccessibilityCheckRetries(m, s, granted) ==
    IF ~granted \/ s.tag = "Err" THEN [mon |-> m, ret |-> [tag |-> "Err"]]
    ELSE IF s.tag = "NoText" THEN [mon |-> m, ret |-> None]
    ELSE ProcessField(m, FocusedTextField(s.text, s.app, FALSE))

\* AccessibilityMonitor::check_for_changes on sample s: get_focused_text
\* fails with PermissionDenied without the permission, and never flags a
\* field as a password field.
AccessibilityCheck(m, s, granted) ==
    IF ~granted THEN [mon |-> m, ret |-> [tag |-> "PermissionDenied"]]
    ELSE IF s.tag = "Err" THEN [mon |-> m, ret |-> [tag |-> "Err"]]
    ELSE IF s.tag = "NoText" THEN [mon |-> m, ret |-> None]
    ELSE ProcessField(m, FocusedTextField(s.text, s.app, FALSE))

\* A call of check_for_changes that gets no text from the surface: the
\* sample failed or there was nothing to read.
CheckWithoutText(s) ==
    /\ s.tag \in {"Err", "NoText"}
    /\ ~mon.panicked
    /\ mon' = IF mon.kind = "clipboard"
              THEN ClipboardCheck(mon, s).mon
              ELSE AccessibilityCheck(mon, s, TRUE).mon
    /\ m_last' = [called |-> FALSE, emitted |-> m_last.emitted, sampled |-> s.tag]
    /\ UNCHANGED nonMon

\* ticker.tick().await, then match self.check_for_changes()
LoopTick ==
    /\ lp = "tick"
    /\ \E s \in Samples :
         LET r == IF mon.kind = "clipboard"
                  THEN ClipboardCheck(mon, s)
                  ELSE AccessibilityCheck(mon, s, perm)
         IN  /\ mon' = r.mon
             /\ sampled' = s.tag
             /\ IF r.ret.tag = "Some"
                THEN lp' = "send" /\ pending' = r.ret /\ UNCHANGED exit_cause
                ELSE IF r.ret.tag = "Panic"
                THEN lp' = "panicked" /\ UNCHANGED <<pending, exit_cause>>
                ELSE IF r.ret.tag = "PermissionDenied"
                THEN lp' = "exit" /\ exit_cause' = "denied" /\ UNCHANGED pending
                ELSE lp' = "top" /\ UNCHANGED <<pending, exit_cause>>
    /\ since_stop' = IF stop_req THEN [since_stop EXCEPT !.samples = Counted(@)]
                              ELSE since_stop
    /\ UNCHANGED <<running, chan, rx_alive, perm, stop_req, stops, nonLoop, macVars>>

\* A bug that goes on polling after a failed send.
SendOutcomeIgnoresClosed(alive) == "top"

\* if tx.send(capture).await.is_err() { break; }
SendOutcome(alive) == IF alive THEN "top" ELSE "exit"

\* A bug that sends with try_send: a capture that finds the channel full is
\* dropped.
LoopSendDropsWhenFull ==
    /\ lp = "send"
    /\ lp' = SendOutcome(rx_alive)
    /\ chan' = IF rx_alive /\ Len(chan) < ChanCap THEN Append(chan, pending.val) ELSE chan
    /\ exit_cause' = IF rx_alive THEN exit_cause ELSE "closed"
    /\ pending' = None
    /\ since_stop' = IF stop_req /\ chan' # chan THEN [since_stop EXCEPT !.emitted = Counted(@)]
                              ELSE since_stop
    /\ UNCHANGED <<mon, running, rx_alive, perm, sampled, stop_req, stops, nonLoop, macVars>>

\* tx.send(capture).await: fails once the receiver is gone, waits while the
\* channel is full.
LoopSend ==
    /\ lp = "send"
    /\ ~rx_alive \/ Len(chan) < ChanCap
    /\ lp' = SendOutcome(rx_alive)
    /\ chan' = IF rx_alive THEN Append(chan, pending.val) ELSE chan
    /\ exit_cause' = IF rx_alive THEN exit_cause ELSE "closed"
    /\ pending' = None
    /\ since_stop' = IF stop_req /\ chan' # chan THEN [since_stop EXCEPT !.emitted = Counted(@)]
                              ELSE since_stop
    /\ UNCHANGED <<mon, running, rx_alive, perm, sampled, stop_req, stops, nonLoop, macVars>>

\* After the loop: self.running.store(false); Ok(())
LoopExit ==
    /\ lp = "exit"
    /\ running' = FALSE
    /\ lp' = "returned_ok"
    /\ UNCHANGED <<mon, pending, chan, rx_alive, perm, sampled, stop_req, since_stop, stops, exit_cause, nonLoop, macVars>>

\* One more stop() call counted.
CountStop(n) == IF n < MaxStops THEN n + 1 ELSE n

\* A bug that flips the running flag.
StopToggles ==
    /\ ~wrapped
    /\ running' = ~running
    /\ stop_req' = (stop_req \/ InLoop)
    /\ UNCHANGED since_stop
    /\ stops' = CountStop(stops)
    /\ UNCHANGED <<mon, lp, pending, chan, rx_alive, perm, sampled, exit_cause, nonLoop, macVars>>

\* ClipboardMonitor::stop, AccessibilityMonitor::stop and the stop of their
\* handles: running.store(false)
Stop ==
    /\ ~wrapped
    /\ running' = FALSE
    /\ stop_req' = (stop_req \/ InLoop)
    /\ UNCHANGED since_stop
    /\ stops' = CountStop(stops)
    /\ UNCHANGED <<mon, lp, pending, chan, rx_alive, perm, sampled, exit_cause, nonLoop, macVars>>

\* The receiver takes a capture.
Recv ==
    /\ ~wrapped
    /\ rx_alive
    /\ chan # <<>>
    /\ chan' = Tail(chan)
    /\ recvd' = <<recvd[2], Head(chan).timestamp>>
    /\ UNCHANGED <<mon, running, lp, pending, rx_alive, perm, sampled, stop_req, since_stop, stops, exit_cause, nonFwd, old, sends, macVars>>

\* The receiver is dropped, with what the channel holds.
DropReceiver ==
    /\ ~wrapped
    /\ rx_alive
    /\ rx_alive' = FALSE
    /\ chan' = <<>>
    /\ UNCHANGED <<mon, running, lp, pending, perm, sampled, stop_req, since_stop, stops, exit_cause, nonLoop, macVars>>

\* The user grants or revokes the accessibility permission.
SetPermission ==
    /\ mon.kind = "accessibility"
    /\ perm' = ~perm
    /\ UNCHANGED <<mon, running, lp, pending, chan, rx_alive, stop_req, since_stop, sampled, stops, exit_cause, nonLoop, macVars>>

(* The Mac adapters, MacClipboardMonitor and MacAccessibilityMonitor: each  *)
(* owns a monitor, gives it an internal channel (chan, of capacity 100 in  *)
(* the source, ChanCap here) and forwards what the monitor emits to the    *)
(* output channel from a task of its own.                                  *)

\* CaptureData { content, content_hash, timestamp, source_app, capture_type }
CaptureData(capture, kind) ==
    [content |-> capture.content, content_hash |-> capture.content_hash,
     timestamp |-> capture.timestamp, source_app |-> capture.source_app,
     capture_type |-> IF kind = "clipboard" THEN "clipboard" ELSE "text_field"]

\* The internal sender moves into the monitor's start(): it is dropped when
\* that call returns or unwinds.
InternalSenderDropped ==
    /\ a_lp \in {"inner_wait", "returned_ok", "returned_err", "returned_already", "cancelled"}
    /\ lp \in {"returned_ok", "returned_err", "panicked", "cancelled"}

\* Mac*Monitor::start(tx), up to the call of the monitor's start: the
\* permission check (accessibility only), running.swap(true), the internal
\* channel and the forwarding task. tx is the sender of the output channel
\* in use, or of a new one when its receiver is gone. A start is taken once
\* the forwarding task of the previous run has ended.
MacStart ==
    /\ wrapped
    /\ a_lp \in {"init", "returned_ok", "returned_err", "returned_already", "cancelled"}
    /\ fwd.pc \in {"none", "done"}
    /\ IF mon.kind = "accessibility" /\ ~perm
       THEN /\ a_lp' = "returned_err"
            /\ UNCHANGED <<a_running, fwd, chan, rx_alive>>
       ELSE IF a_running
       THEN /\ a_lp' = "returned_already"
            /\ UNCHANGED <<a_running, fwd, chan, rx_alive>>
       ELSE /\ a_running' = TRUE
            /\ chan' = <<>>
            /\ rx_alive' = TRUE
            /\ fwd' = [pc |-> "recv", data |-> None]
            /\ a_lp' = "inner_call"
    /\ IF out_alive
       THEN UNCHANGED <<out, out_alive>>
       ELSE out' = <<>> /\ out_alive' = TRUE
    /\ stops' = (IF a_running' = a_running THEN stops ELSE 0)
    /\ UNCHANGED <<wrapped, capture_count, mon, running, lp, pending, perm, sampled,
                   stop_req, since_stop, exit_cause, nonLoop>>

\* The same start(tx), on the sender of the output channel in use, while
\* the forwarding task of the previous run, which nothing joins or aborts,
\* still waits for room in that channel: it keeps its internal channel and
\* what it holds, and a second task is spawned on a new one.
MacRestart ==
    /\ wrapped
    /\ a_lp \in {"returned_ok", "returned_err", "returned_already", "cancelled"}
    /\ fwd.pc \in {"send", "queued"}
    /\ old.pc \in {"none", "done"}
    /\ out_alive
    /\ Len(out) >= OutCap
    /\ ~(mon.kind = "accessibility" /\ ~perm)
    /\ ~a_running
    /\ a_running' = TRUE
    /\ old' = [pc |-> fwd.pc, data |-> fwd.data, chan |-> chan]
    /\ chan' = <<>>
    /\ rx_alive' = TRUE
    /\ fwd' = [pc |-> "recv", data |-> None]
    /\ a_lp' = "inner_call"
    /\ stops' = 0
    /\ UNCHANGED <<wrapped, out, out_alive, capture_count, mon, running, lp, pending,
                   perm, sampled, stop_req, since_stop, exit_cause, nonFwd, recvd, sends>>

\* self.inner.start(internal_tx)
InnerStart ==
    /\ wrapped
    /\ a_lp = "inner_call"
    /\ StartCall
    /\ a_lp' = "inner_wait"
    /\ UNCHANGED <<wrapped, a_running, fwd, out, out_alive, capture_count>>

\* A bug that lets the adapter's start() return while the loop is polling.
MacReturnEarly ==
    /\ wrapped
    /\ a_lp = "inner_wait"
    /\ a_running' = FALSE
    /\ a_lp' = "returned_ok"
    /\ UNCHANGED <<wrapped, fwd, out, out_alive, capture_count, loopVars, mon, nonLoop>>

\* The monitor's start has returned: self.running.store(false), and its
\* result mapped to the adapter's.
MacReturn ==
    /\ wrapped
    /\ a_lp = "inner_wait"
    /\ lp \in {"returned_ok", "returned_err"}
    /\ a_running' = FALSE
    /\ a_lp' = lp
    /\ UNCHANGED <<wrapped, fwd, out, out_alive, capture_count, loopVars, mon, nonLoop>>

\* tx.send(data).await on a bounded channel: the senders that wait for room
\* are served in the order in which they came, so a task that comes to its
\* send while the other forwarding task is at its own stands behind it.
SendPosition(other_pc) == IF other_pc = "send" THEN "queued" ELSE "send"

\* The other task's send is over: the task behind it is the next.
Advance(task) == IF task.pc = "queued" THEN [task EXCEPT !.pc = "send"] ELSE task

\* A bug that leaves the counter alone.
ForwardRecvUncounted ==
    /\ wrapped
    /\ fwd.pc = "recv"
    /\ IF chan # <<>>
       THEN /\ capture_count < MaxCount
            /\ fwd' = [pc |-> SendPosition(old.pc),
                       data |-> Some(CaptureData(Head(chan), mon.kind))]
            /\ chan' = Tail(chan)
            /\ UNCHANGED <<rx_alive, capture_count>>
       ELSE /\ InternalSenderDropped
            /\ fwd' = [pc |-> "done", data |-> None]
            /\ rx_alive' = FALSE
            /\ UNCHANGED <<chan, capture_count>>
    /\ UNCHANGED <<wrapped, a_running, a_lp, out, out_alive, mon, running, lp,
                   pending, perm, sampled, stop_req, since_stop, stops, exit_cause, nonLoop>>

\* The forwarding task: while let Some(capture) = internal_rx.recv().await,
\* build the CaptureData and capture_count.fetch_add(1). The task ends, and
\* drops the internal receiver, when the channel is empty and its sender gone.
ForwardRecv ==
    /\ wrapped
    /\ fwd.pc = "recv"
    /\ IF chan # <<>>
       THEN /\ capture_count < MaxCount
            /\ fwd' = [pc |-> SendPosition(old.pc),
                       data |-> Some(CaptureData(Head(chan), mon.kind))]
            /\ chan' = Tail(chan)
            /\ capture_count' = capture_count + 1
            /\ UNCHANGED rx_alive
       ELSE /\ InternalSenderDropped
            /\ fwd' = [pc |-> "done", data |-> None]
            /\ rx_alive' = FALSE
            /\ UNCHANGED <<chan, capture_count>>
    /\ UNCHANGED <<wrapped, a_running, a_lp, out, out_alive, mon, running, lp,
                   pending, perm, sampled, stop_req, since_stop, stops, exit_cause, nonLoop>>

\* The forwarding task of the previous run does the same on its own
\* internal channel, whose sender went with that run's start().
OldForwardRecv ==
    /\ wrapped
    /\ old.pc = "recv"
    /\ IF old.chan # <<>>
       THEN /\ capture_count < MaxCount
            /\ old' = [pc |-> SendPosition(fwd.pc),
                       data |-> Some(CaptureData(Head(old.chan), mon.kind)),
                       chan |-> Tail(old.chan)]
            /\ capture_count' = capture_count + 1
       ELSE /\ old' = [pc |-> "done", data |-> None, chan |-> <<>>]
            /\ UNCHANGED capture_count
    /\ UNCHANGED <<wrapped, a_running, a_lp, fwd, out, out_alive, loopVars, mon,
                   nonFwd, recvd, sends>>

\* tx.send(data).await is Ok when the receiver of the output channel lives.
Sent(alive) ==
    IF alive THEN [sends EXCEPT !.delivered = @ + 1] ELSE [sends EXCEPT !.failed = @ + 1]

\* A bug that keeps the forwarding task alive after a failed send.
ForwardOutcomeIgnoresClosed(alive) == "recv"

\* if tx.send(data).await.is_err() { break; }
ForwardOutcome(alive) == IF alive THEN "recv" ELSE "done"

\* The forwarding task: tx.send(data).await. On a failed send the task ends
\* and drops the internal receiver with what the internal channel holds.
ForwardSend ==
    /\ wrapped
    /\ fwd.pc = "send"
    /\ ~out_alive \/ Len(out) < OutCap
    /\ fwd' = [pc |-> ForwardOutcome(out_alive), data |-> None]
    /\ IF out_alive
       THEN /\ out' = Append(out, fwd.data.val)
            /\ UNCHANGED <<chan, rx_alive>>
       ELSE /\ chan' = <<>>
            /\ rx_alive' = FALSE
            /\ UNCHANGED out
    /\ old' = Advance(old)
    /\ sends' = Sent(out_alive)
    /\ UNCHANGED <<wrapped, a_running, a_lp, out_alive, capture_count, mon, running,
                   lp, pending, perm, sampled, stop_req, since_stop, stops, exit_cause, nonFwd, recvd>>

\* The same send by the forwarding task of the previous run.
OldForwardSend ==
    /\ wrapped
    /\ old.pc = "send"
    /\ ~out_alive \/ Len(out) < OutCap
    /\ old' = [pc |-> ForwardOutcome(out_alive), data |-> None,
               chan |-> IF out_alive THEN old.chan ELSE <<>>]
    /\ out' = IF out_alive THEN Append(out, old.data.val) ELSE out
    /\ fwd' = Advance(fwd)
    /\ sends' = Sent(out_alive)
    /\ UNCHANGED <<wrapped, a_running, a_lp, out_alive, capture_count, loopVars, mon,
                   nonFwd, recvd>>

\* The caller drops the future of start() while the loop is suspended, at
\* the tick wait or at the send (a timeout, a select!, an aborted task): the
\* loop is gone with its sender and the capture it was sending, and nothing
\* resets the running flag.
CancelStart ==
    /\ ~wrapped
    /\ lp \in {"tick", "send"}
    /\ lp' = "cancelled"
    /\ pending' = None
    /\ exit_cause' = "cancelled"
    /\ UNCHANGED <<mon, running, chan, rx_alive, perm, sampled, stop_req, since_stop, stops, nonLoop, macVars>>

\* The same for the future of a Mac adapter's start(), which owns the
\* future of the monitor's start(); the forwarding task is detached and
\* lives on.
MacCancelStart ==
    /\ wrapped
    /\ a_lp = "inner_wait"
    /\ lp \in {"tick", "send"}
    /\ a_lp' = "cancelled"
    /\ lp' = "cancelled"
    /\ pending' = None
    /\ exit_cause' = "cancelled"
    /\ UNCHANGED <<wrapped, a_running, fwd, out, out_alive, capture_count, mon,
                   running, chan, rx_alive, perm, sampled, stop_req, since_stop, stops, nonLoop>>

\* Mac*Monitor::stop: self.inner.stop(); self.running.store(false)
MacStop ==
    /\ wrapped
    /\ running' = FALSE
    /\ a_running' = FALSE
    /\ stop_req' = (stop_req \/ InLoop)
    /\ UNCHANGED since_stop
    /\ stops' = CountStop(stops)
    /\ UNCHANGED <<wrapped, a_lp, fwd, out, out_alive, capture_count, mon, lp,
                   pending, chan, rx_alive, perm, sampled, exit_cause, nonLoop>>

\* MacMonitorHandle::stop: self.running.store(false), then the stop of the
\* inner handle, which only the clipboard adapter's handle holds.
MacHandleStop ==
    /\ wrapped
    /\ a_running' = FALSE
    /\ IF mon.kind = "clipboard"
       THEN running' = FALSE /\ stop_req' = (stop_req \/ InLoop)
       ELSE UNCHANGED <<running, stop_req>>
    /\ UNCHANGED since_stop
    /\ stops' = CountStop(stops)
    /\ UNCHANGED <<wrapped, a_lp, fwd, out, out_alive, capture_count, mon, lp,
                   pending, chan, rx_alive, perm, sampled, exit_cause, nonLoop>>

\* The receiver of the output channel takes a capture.
OutRecv ==
    /\ wrapped
    /\ out_alive
    /\ out # <<>>
    /\ out' = Tail(out)
    /\ recvd' = <<recvd[2], Head(out).timestamp>>
    /\ UNCHANGED <<wrapped, a_running, a_lp, fwd, out_alive, capture_count, loopVars,
                   mon, nonFwd, old, sends>>

\* The receiver of the output channel is dropped, with what the channel holds.
OutDrop ==
    /\ wrapped
    /\ out_alive
    /\ out_alive' = FALSE
    /\ out' = <<>>
    /\ UNCHANGED <<wrapped, a_running, a_lp, fwd, capture_count, loopVars, mon, nonLoop>>

----------------------------------------------------------------------------
(* MonitorHandle and MonitorManager. A handle is a stop_signal of its own, *)
(* made false by MonitorHandle::new; the polling loops above read their    *)
(* monitor's running flag, and nothing passes a handle's signal on to it.  *)

\* MonitorManager::new
ManagerIdle == handles = <<>>

\* MonitorManager::add(MonitorHandle::new(monitor_type)), for a monitor that
\* is not running yet.
ManagerAdd ==
    /\ Len(handles) < MaxHandles
    /\ lp = "init"
    /\ handles' = Append(handles, FALSE)
    /\ UNCHANGED <<storeVars, connVars, monVars, loopVars, macVars, fwdVars, pipeVars>>

\* MonitorHandle::stop and MonitorHandle::reset on a managed handle or a
\* clone of it: stop_signal.store(true), stop_signal.store(false)
HandleSet(i, signal) ==
    /\ i \in DOMAIN handles
    /\ handles' = [handles EXCEPT ![i] = signal]
    /\ UNCHANGED <<storeVars, connVars, monVars, loopVars, macVars, fwdVars, pipeVars>>

\* A bug that leaves the loop over the handles after the first one.
StopAllFirstOnly ==
    /\ handles' = [i \in DOMAIN handles |-> IF i = 1 THEN TRUE ELSE handles[i]]
    /\ UNCHANGED <<storeVars, connVars, monVars, loopVars, macVars, fwdVars, pipeVars>>

\* MonitorManager::stop_all: handle.stop() for every handle, then the return.
StopAll ==
    /\ handles' = [i \in DOMAIN handles |-> TRUE]
    /\ UNCHANGED <<storeVars, connVars, monVars, loopVars, macVars, fwdVars, pipeVars>>

\* MonitorManager::count
Count == Len(handles)

\* MonitorManager::any_running
AnyRunning == \E i \in DOMAIN handles : ~handles[i]

\* The monitors the loop is checked with: both kinds, with a maximum that
\* cuts the samples and with one that does not.
LoopMonInit ==
    /\ mon \in {MonitorWithConfig(k, DefaultMinContentLength, max, k = "accessibility") :
                    k \in {"clipboard", "accessibility"}, max \in {1, MaxLen}}
    /\ m_last = NotCalled

----------------------------------------------------------------------------
(* PrivacyFilter. A text is a sequence of words; a regex is modelled by its  *)
(* language, the set of word sequences it matches. Each built-in pattern    *)
(* has a word standing for the texts it is written for; bearer_token        *)
(* matches the word "bearer" followed by any word made of the characters     *)
(* [a-zA-Z0-9_.=-], which the placeholder "[REDACTED]" is not.              *)

Placeholder == "[REDACTED]"

TokenWords ==
    {"hello", "bearer", "api_key", "AKIA", "aws_secret", "pwd", "ssn1", "ssn2",
     "ghp", "tok"}

\* FilterPattern::new(name, description, pattern)
FilterPattern(name, lang) == [name |-> name, lang |-> lang]

\* builtin_patterns()
BuiltinPatterns ==
    << FilterPattern("api_key_generic", {<<"api_key">>}),
       FilterPattern("bearer_token", {<<"bearer", w>> : w \in TokenWords}),
       FilterPattern("aws_key", {<<"AKIA">>}),
       FilterPattern("aws_secret", {<<"aws_secret">>}),
       FilterPattern("password_field", {<<"pwd">>}),
       FilterPattern("credit_card", {<<"card">>}),
       FilterPattern("ssn", {<<"ssn1">>, <<"ssn2">>}),
       FilterPattern("private_key", {<<"pem">>}),
       FilterPattern("github_token", {<<"ghp">>}),
       FilterPattern("slack_token", {<<"xoxb">>}),
       FilterPattern("connection_string", {<<"dburl">>}) >>

\* The words of lang found in content at position i
MatchesAt(lang, content, i) ==
    {w \in lang : /\ i + Len(w) - 1 <= Len(content)
                  /\ SubSeq(content, i, i + Len(w) - 1) = w}

\* FilterPattern::matches / Regex::is_match
PatternMatches(lang, content) ==
    \E i \in 1..Len(content) : MatchesAt(lang, content, i) # {}

\* FilterPattern::redact / Regex::replace_all: each match, leftmost first and
\* not overlapping the one before, is replaced by the placeholder.
RECURSIVE ReplaceFrom(_, _, _, _)
ReplaceFrom(lang, content, placeholder, i) ==
    IF i > Len(content) THEN <<>>
    ELSE LET here == MatchesAt(lang, content, i)
         IN  IF here = {}
             THEN <<content[i]>> \o ReplaceFrom(lang, content, placeholder, i + 1)
             ELSE LET w == CHOOSE x \in here : \A y \in here : Len(y) <= Len(x)
                  IN  <<placeholder>> \o ReplaceFrom(lang, content, placeholder, i + Len(w))

PatternRedact(lang, content, placeholder) == ReplaceFrom(lang, content, placeholder, 1)

\* A custom pattern of the configuration: whether Regex::new compiles it, and
\* its language when it does.
CustomTok == [valid |-> TRUE, lang |-> {<<"tok">>}]
CustomInvalid == [valid |-> FALSE, lang |-> {}]
CustomHello == [valid |-> TRUE, lang |-> {<<"hello">>}]

\* FilterConfig
FilterConfig(enabled, mode, use_builtin_patterns, custom_patterns) ==
    [enabled |-> enabled, mode |-> mode,
     use_builtin_patterns |-> use_builtin_patterns,
     custom_patterns |-> custom_patterns,
     redaction_placeholder |-> Placeholder]

\* FilterConfig::default
DefaultFilterConfig == FilterConfig(TRUE, "Block", TRUE, <<>>)

IsValid(p) == p.valid

\* A bug that keeps the place of a custom pattern that does not compile,
\* with a regex that matches nothing.
PrivacyFilterKeepsPlaces(config) ==
    [config |-> config,
     patterns |-> IF config.use_builtin_patterns THEN BuiltinPatterns ELSE <<>>,
     custom_regexes |-> [i \in DOMAIN config.custom_patterns |->
                            [valid |-> TRUE, lang |-> config.custom_patterns[i].lang]]]

\* PrivacyFilter::with_config: the built-in patterns when they are in use,
\* and the custom patterns that compile.
PrivacyFilterWithConfig(config) ==
    [config |-> config,
     patterns |-> IF config.use_builtin_patterns THEN BuiltinPatterns ELSE <<>>,
     custom_regexes |-> SelectSeq(config.custom_patterns, IsValid)]

\* FilterResult
Passed == [tag |-> "Passed"]
Blocked(pattern_name) == [tag |-> "Blocked", pattern_name |-> pattern_name]
Redacted(content, redacted_patterns) ==
    [tag |-> "Redacted", content |-> content, redacted_patterns |-> redacted_patterns]

\* The patterns in the order the filter goes through them: the built-in
\* ones, then the custom ones under the names custom_0, custom_1, ...
PatternsInOrder(f) ==
    f.patterns \o [i \in 1..Len(f.custom_regexes) |->
                      FilterPattern("custom_" \o ToString(i - 1), f.custom_regexes[i].lang)]

\* A bug that names the last pattern that matches.
FilterBlockLastMatch(f, content) ==
    LET all == PatternsInOrder(f)
        hits == {i \in 1..Len(all) : PatternMatches(all[i].lang, content)}
    IN  IF hits = {} THEN Passed
        ELSE Blocked(all[CHOOSE i \in hits : \A j \in hits : j <= i].name)

\* A bug that leaves the loop over the custom patterns out.
FilterBlockBuiltinOnly(f, content) ==
    LET hits == {i \in 1..Len(f.patterns) : PatternMatches(f.patterns[i].lang, content)}
    IN  IF hits = {} THEN Passed
        ELSE Blocked(f.patterns[CHOOSE i \in hits : \A j \in hits : i <= j].name)

\* PrivacyFilter::filter_block
FilterBlock(f, content) ==
    LET all == PatternsInOrder(f)
        hits == {i \in 1..Len(all) : PatternMatches(all[i].lang, content)}
    IN  IF hits = {} THEN Passed
        ELSE Blocked(all[CHOOSE i \in hits : \A j \in hits : i <= j].name)

\* The loops of filter_redact from pattern k on: a pattern that matches the
\* running result redacts it and adds its name.
RECURSIVE RedactFrom(_, _, _, _, _)
RedactFrom(all, k, result, redacted_patterns, placeholder) ==
    IF k > Len(all) THEN [result |-> result, redacted_patterns |-> redacted_patterns]
    ELSE IF PatternMatches(all[k].lang, result)
    THEN RedactFrom(all, k + 1, PatternRedact(all[k].lang, result, placeholder),
                    Append(redacted_patterns, all[k].name), placeholder)
    ELSE RedactFrom(all, k + 1, result, redacted_patterns, placeholder)

\* A bug that tests each pattern on the content it was given and not on the
\* running result.
FilterRedactOnOriginal(f, content) ==
    LET all == PatternsInOrder(f)
        r == RedactFrom(all, 1, content, <<>>, f.config.redaction_placeholder)
        Hit(p) == PatternMatches(p.lang, content)
        hits == SelectSeq(all, Hit)
    IN  IF hits = <<>> THEN Passed
        ELSE Redacted(r.result, [i \in DOMAIN hits |-> hits[i].name])

\* A bug that returns the content it was given.
FilterRedactKeepsContent(f, content) ==
    LET r == RedactFrom(PatternsInOrder(f), 1, content, <<>>, f.config.redaction_placeholder)
    IN  IF r.redacted_patterns = <<>> THEN Passed
        ELSE Redacted(content, r.redacted_patterns)

\* PrivacyFilter::filter_redact
FilterRedact(f, content) ==
    LET r == RedactFrom(PatternsInOrder(f), 1, content, <<>>, f.config.redaction_placeholder)
    IN  IF r.redacted_patterns = <<>> THEN Passed
        ELSE Redacted(r.result, r.redacted_patterns)

\* A bug that blocks in warn mode.
FilterWarnBlocks(f, content) == FilterBlock(f, content)

\* PrivacyFilter::filter_warn: the matches are logged, the answer is Passed.
FilterWarn(f, content) == Passed

\* A bug that filters when the filter is disabled.
FilterIgnoresEnabled(f, content) ==
    IF f.config.mode = "Block" THEN FilterBlock(f, content)
    ELSE IF f.config.mode = "Redact" THEN FilterRedact(f, content)
    ELSE FilterWarn(f, content)

\* PrivacyFilter::filter
Filter(f, content) ==
    IF ~f.config.enabled THEN Passed
    ELSE IF f.config.mode = "Block" THEN FilterBlock(f, content)
    ELSE IF f.config.mode = "Redact" THEN FilterRedact(f, content)
    ELSE FilterWarn(f, content)

----------------------------------------------------------------------------
(* The exclusion list. An application name is the sequence of its          *)
(* characters.                                                             *)

\* default_excluded_apps()
DefaultExcludedApps ==
    << <<"1", "P", "a", "s", "s", "w", "o", "r", "d">>,
       <<"1", "P", "a", "s", "s", "w", "o", "r", "d", " ", "7">>,
       <<"1", "P", "a", "s", "s", "w", "o", "r", "d", " ", "8">>,
       <<"B", "i", "t", "w", "a", "r", "d", "e", "n">>,
       <<"L", "a", "s", "t", "P", "a", "s", "s">>,
       <<"D", "a", "s", "h", "l", "a", "n", "e">>,
       <<"K", "e", "e", "P", "a", "s", "s", "X", "C">>,
       <<"K", "e", "y", "c", "h", "a", "i", "n", " ", "A", "c", "c", "e", "s", "s">>,
       <<"A", "u", "t", "h", "e", "n", "t", "i", "c", "a", "t", "o", "r">>,
       <<"G", "o", "o", "g", "l", "e", " ", "A", "u", "t", "h", "e", "n", "t", "i", "c", "a", "t", "o", "r">>,
       <<"M", "i", "c", "r", "o", "s", "o", "f", "t", " ", "A", "u", "t", "h", "e", "n", "t", "i", "c", "a", "t", "o", "r">>,
       <<"A", "u", "t", "h", "y">>,
       <<"T", "e", "r", "m", "i", "n", "a", "l">>,
       <<"i", "T", "e", "r", "m", "2">>,
       <<"A", "l", "a", "c", "r", "i", "t", "t", "y">>,
       <<"W", "a", "r", "p">> >>

AsciiUppercase ==
    << "A", "B", "C", "D", "E", "F", "G", "H", "I", "J", "K", "L", "M",
       "N", "O", "P", "Q", "R", "S", "T", "U", "V", "W", "X", "Y", "Z" >>
AsciiLowercase ==
    << "a", "b", "c", "d", "e", "f", "g", "h", "i", "j", "k", "l", "m",
       "n", "o", "p", "q", "r", "s", "t", "u", "v", "w", "x", "y", "z" >>

\* u8::to_ascii_lowercase, on characters
ToAsciiLowercase(ch) ==
    IF \E i \in DOMAIN AsciiUppercase : AsciiUppercase[i] = ch
    THEN AsciiLowercase[CHOOSE i \in DOMAIN AsciiUppercase : AsciiUppercase[i] = ch]
    ELSE ch

\* str::eq_ignore_ascii_case: the same length, and the same characters once
\* the ASCII letters are folded.
EqIgnoreAsciiCase(a, b) ==
    /\ Len(a) = Len(b)
    /\ \A i \in DOMAIN a : ToAsciiLowercase(a[i]) = ToAsciiLowercase(b[i])

\* A bug that takes an entry that holds the name for a match.
IsAppExcludedContains(list, app_name) ==
    \E i \in DOMAIN list : \E k \in 0..(Len(list[i]) - Len(app_name)) :
        EqIgnoreAsciiCase(SubSeq(list[i], k + 1, k + Len(app_name)), app_name)

\* PrivacyFilter::is_app_excluded
IsAppExcluded(list, app_name) ==
    \E i \in DOMAIN list : EqIgnoreAsciiCase(list[i], app_name)

FilterNotCalled == [op |-> "new", arg |-> None, ret |-> None, before |-> <<>>]

filterFrame == <<filt, inbox, coord, storeVars, nonPipe>>

\* filter(content), called on the filter
FilterCall(content) ==
    /\ f_last' = [op |-> "filter", arg |-> content, ret |-> Filter(filt, content),
                  before |-> excluded_apps]
    /\ UNCHANGED <<excluded_apps, filterFrame>>

\* is_app_excluded(app_name), called on the filter
IsAppExcludedCall(app_name) ==
    /\ f_last' = [op |-> "is_app_excluded", arg |-> app_name,
                  ret |-> IsAppExcluded(excluded_apps, app_name), before |-> excluded_apps]
    /\ UNCHANGED <<excluded_apps, filterFrame>>

\* PrivacyFilter::exclude_app
ExcludeApp(app_name) ==
    /\ excluded_apps' = IF ~IsAppExcluded(excluded_apps, app_name)
                        THEN Append(excluded_apps, app_name)
                        ELSE excluded_apps
    /\ f_last' = [op |-> "exclude_app", arg |-> app_name, ret |-> None,
                  before |-> excluded_apps]
    /\ UNCHANGED filterFrame

\* PrivacyFilter::unexclude_app: retain(|a| !a.eq_ignore_ascii_case(app_name))
UnexcludeApp(app_name) ==
    /\ excluded_apps' = LET Keep(a) == ~EqIgnoreAsciiCase(a, app_name)
                        IN  SelectSeq(excluded_apps, Keep)
    /\ f_last' = [op |-> "unexclude_app", arg |-> app_name, ret |-> None,
                  before |-> excluded_apps]
    /\ UNCHANGED filterFrame

----------------------------------------------------------------------------
(* The Pipeline Coordinator: it takes each capture the monitors emit,       *)
(* applies the filter and forwards what survives to the store.              *)

FilterModes == {"Block", "Redact", "WarnOnly"}

\* The configurations the pipeline is checked with: each mode, with and
\* without the built-in patterns, with and without custom patterns, and the
\* default configuration with the filter disabled.
FilterConfigs ==
    {FilterConfig(TRUE, mode, bi, cu) :
        mode \in FilterModes, bi \in BOOLEAN,
        cu \in {<<>>, <<CustomInvalid, CustomTok>>}}
    \cup {FilterConfig(FALSE, "Block", TRUE, <<>>)}

\* What the monitors emit: plain text, two texts that differ in a social
\* security number only, a bearer token holding an access key id, a text a
\* custom pattern matches.
PipeContents ==
    {<<"hello">>, <<"hello", "ssn1">>, <<"hello", "ssn2">>, <<"bearer", "AKIA">>,
     <<"tok">>}

PipeCaptures == {Capture(c, "clipboard", Some("Mail"), now) : c \in PipeContents}

CoordWaiting ==
    [pc |-> "recv", capture |-> None, result |-> None, forwarded |-> None, ret |-> None]

PipeIdle ==
    /\ filt = PrivacyFilterWithConfig(DefaultFilterConfig)
    /\ excluded_apps = DefaultExcludedApps
    /\ f_last = FilterNotCalled
    /\ inbox = <<>>
    /\ coord = CoordWaiting

\* A monitor's tx.send(capture): the capture enters the coordinator's channel.
Emit(capture) ==
    /\ Len(inbox) < InboxCap
    /\ inbox' = Append(inbox, capture)
    /\ UNCHANGED <<filt, filterVars, coord, storeVars, nonPipe>>

\* The coordinator takes the next capture.
CoordRecv ==
    /\ coord.pc = "recv"
    /\ inbox # <<>>
    /\ coord' = [pc |-> "filter", capture |-> Some(Head(inbox)), result |-> None,
                 forwarded |-> None, ret |-> None]
    /\ inbox' = Tail(inbox)
    /\ UNCHANGED <<filt, filterVars, storeVars, nonPipe>>

\* What the coordinator forwards to the store: nothing on Blocked; on
\* Redacted the capture with the redacted content and the hash recomputed
\* over it; the capture as it is on Passed.
CoordApply(capture, result) ==
    IF result.tag = "Blocked" THEN None
    ELSE IF result.tag = "Redacted"
    THEN Some([capture EXCEPT !.content = result.content,
                              !.content_hash = Hash(result.content)])
    ELSE Some(capture)

\* The coordinator classifies the capture in hand.
CoordFilter ==
    /\ coord.pc = "filter"
    /\ LET result == Filter(filt, coord.capture.val.content)
           forwarded == CoordApply(coord.capture.val, result)
       IN  coord' = [coord EXCEPT !.pc = IF forwarded = None THEN "recv" ELSE "insert",
                                  !.result = Some(result),
                                  !.forwarded = forwarded]
    /\ UNCHANGED <<filt, filterVars, inbox, storeVars, nonPipe>>

\* The coordinator inserts what survived.
CoordInsert ==
    /\ coord.pc = "insert"
    /\ InsertCall(coord.forwarded.val)
    /\ coord' = [coord EXCEPT !.pc = "recv", !.ret = Some(st_last'.ret)]
    /\ UNCHANGED <<filt, filterVars, inbox, nonPipe>>

----------------------------------------------------------------------------
(* Specifications. *)

\* One Storage handle.
Init ==
    /\ StoreInit
    /\ ConnInit
    /\ MonIdle
    /\ LoopIdle
    /\ wrapped = FALSE
    /\ MacIdle
    /\ ManagerIdle
    /\ PipeIdle

Next ==
    \/ \E c \in Captures : Insert(c)
    \/ \E id \in 1..MaxId : Delete(id)
    \/ \E a \in Times : PruneOlderThan(a)
    \/ \E n \in 0..MaxId : PruneKeepRecent(n)
    \/ Tick

Spec == Init /\ [][Next]_vars

\* The store with its read paths.
SearchQueries == {<<>>, <<"A">>, <<"b", "a">>, <<"_">>}
QueryApps == {"Mail", "Notes"}
CaptureTypes == {"clipboard", "text_field", "keystroke"}

QueryNext ==
    \/ \E c \in Captures : Insert(c)
    \/ Tick
    \/ \E l \in 0..MaxLimit : GetRecent(l)
    \/ \E a \in QueryApps, l \in 0..MaxLimit : GetByApp(a, l)
    \/ \E t \in CaptureTypes, l \in 0..MaxLimit : GetByType(t, l)
    \/ \E q \in SearchQueries, l \in 0..MaxLimit : Search(q, l)
    \/ \E since, until \in Times, l \in 0..MaxLimit : GetByTimeRange(since, until, l)

SpecQuery == Init /\ [][QueryNext]_vars

\* A database file before it is opened: a new one, one whose tables were
\* created by an open that did not get to write the version, or one that an
\* earlier open has brought to the current version. The store is used once
\* it is opened, and can be opened again.
OpenInit ==
    /\ rows = {}
    /\ seq = 0
    /\ removed = {}
    /\ now = 0
    /\ st_last = [op |-> "closed", arg |-> None, ret |-> None]
    /\ st_before = {}
    /\ \/ schema = {} /\ version = None
       \/ schema = SCHEMA_STATEMENTS /\ version \in {None, Some(CURRENT_VERSION)}
    /\ migrated = <<>>
    /\ ConnInit
    /\ MonIdle
    /\ LoopIdle
    /\ wrapped = FALSE
    /\ MacIdle
    /\ ManagerIdle
    /\ PipeIdle

OpenNext ==
    \/ InitializeSchema
    \/ \E c \in Captures : st_last.op # "closed" /\ Insert(c)
    \/ \E id \in 1..MaxId : st_last.op # "closed" /\ Delete(id)
    \/ st_last.op # "closed" /\ Tick

SpecOpen == OpenInit /\ [][OpenNext]_vars

\* Two Storage handles on one database file.
ConnNext ==
    \/ \E h \in Handles : \E c \in CapturesNow : InsertCheck(h, c)
    \/ \E h \in Handles : InsertExecute(h)

SpecStoreShared == Init /\ [][ConnNext]_vars

\* One monitor fed a sequence of samples.
MonitorInit ==
    /\ StoreInit
    /\ ConnInit
    /\ MonInit
    /\ LoopIdle
    /\ wrapped = FALSE
    /\ MacIdle
    /\ ManagerIdle
    /\ PipeIdle

MonitorNext ==
    \/ \E t \in Texts : \E a \in {None, Some("Mail")} : ProcessText(t, a)
    \/ \E t \in Texts : \E p \in BOOLEAN : ProcessFocusedField(t, None, p)
    \/ \E s \in {[tag |-> "Err"], [tag |-> "NoText"]} : CheckWithoutText(s)

SpecMonitor == MonitorInit /\ [][MonitorNext]_vars

\* One monitor running start(), alone or under its Mac adapter, with its
\* stop handle and its receiver.
LoopInit ==
    /\ StoreInit
    /\ ConnInit
    /\ LoopMonInit
    /\ LoopIdle
    /\ wrapped \in BOOLEAN
    /\ MacIdle
    /\ ManagerIdle
    /\ PipeIdle

LoopNext ==
    \/ Start
    \/ LoopCheck
    \/ LoopTick
    \/ LoopSend
    \/ LoopExit
    \/ Stop
    \/ Recv
    \/ DropReceiver
    \/ SetPermission
    \/ MacStart
    \/ InnerStart
    \/ MacReturn
    \/ ForwardRecv
    \/ ForwardSend
    \/ MacStop
    \/ MacHandleStop
    \/ OutRecv
    \/ OutDrop

\* The runtime runs the monitor's task and the forwarding task whenever
\* they can take a step; the calls of start() and stop(), the receivers and
\* the user are free.
LoopFairness ==
    /\ WF_vars(LoopCheck)
    /\ WF_vars(LoopTick)
    /\ WF_vars(LoopSend)
    /\ WF_vars(LoopExit)
    /\ WF_vars(InnerStart)
    /\ WF_vars(MacReturn)
    /\ WF_vars(ForwardRecv)
    /\ WF_vars(ForwardSend)

SpecLoop == LoopInit /\ [][LoopNext]_vars /\ LoopFairness

\* The same, with callers that may drop the future of start().
RestartNext ==
    \/ LoopNext
    \/ CancelStart
    \/ MacCancelStart

SpecRestart == LoopInit /\ [][RestartNext]_vars

\* A Mac clipboard adapter that is started again on the same output
\* channel, with a clock that moves on and a consumer that only receives.
OrderInit ==
    /\ LoopInit
    /\ wrapped
    /\ mon = MonitorWithConfig("clipboard", DefaultMinContentLength, MaxLen, FALSE)

OrderNext ==
    \/ Tick
    \/ MacStart
    \/ MacRestart
    \/ InnerStart
    \/ MacReturn
    \/ LoopCheck
    \/ LoopTick
    \/ LoopSend
    \/ LoopExit
    \/ MacStop
    \/ ForwardRecv
    \/ ForwardSend
    \/ OldForwardRecv
    \/ OldForwardSend
    \/ OutRecv

OrderFairness ==
    /\ LoopFairness
    /\ WF_vars(OldForwardRecv)
    /\ WF_vars(OldForwardSend)

SpecOrder == OrderInit /\ [][OrderNext]_vars /\ OrderFairness

\* Monitors run on their own, with a MonitorManager that holds a handle for
\* each.
ManagerInit ==
    /\ LoopInit
    /\ ~wrapped

ManagerNext ==
    \/ ManagerAdd
    \/ \E i \in 1..MaxHandles, signal \in BOOLEAN : HandleSet(i, signal)
    \/ StopAll
    \/ Start
    \/ LoopCheck
    \/ LoopTick
    \/ LoopSend
    \/ LoopExit
    \/ Stop
    \/ Recv

SpecManager == ManagerInit /\ [][ManagerNext]_vars /\ LoopFairness

\* The monitors' emissions, the coordinator, the filter and the store.
PipelineInit ==
    /\ StoreInit
    /\ ConnInit
    /\ MonIdle
    /\ LoopIdle
    /\ wrapped = FALSE
    /\ MacIdle
    /\ ManagerIdle
    /\ filt \in {PrivacyFilterWithConfig(c) : c \in FilterConfigs}
    /\ excluded_apps = DefaultExcludedApps
    /\ f_last = FilterNotCalled
    /\ inbox = <<>>
    /\ coord = CoordWaiting

PipelineNext ==
    \/ \E c \in PipeCaptures : Emit(c)
    \/ CoordRecv
    \/ CoordFilter
    \/ CoordInsert

SpecPipeline == PipelineInit /\ [][PipelineNext]_vars

\* The filter on its own: every configuration of mode, enabled flag,
\* built-in patterns and custom patterns (among them one that does not
\* compile), and the exclusion list of the default configuration, an empty
\* one and one that was configured with an entry in two spellings.
FilterCustoms ==
    {<<>>, <<CustomInvalid, CustomTok>>, <<CustomTok, CustomHello>>,
     <<CustomHello, CustomInvalid, CustomTok>>}

FilterInputs ==
    {FilterConfig(enabled, mode, bi, cu) :
        enabled \in BOOLEAN, mode \in FilterModes, bi \in BOOLEAN, cu \in FilterCustoms}

FilterContents ==
    PipeContents \cup {<<"hello", "tok">>, <<"pwd">>, <<"ssn1", "hello", "ssn2">>,
                       <<"tok", "bearer", "AKIA">>}

AppNames ==
    {<<"W", "a", "r", "p">>, <<"w", "A", "R", "P">>, <<"W", "a", "r">>, <<"M", "y">>}

ExclusionLists ==
    {DefaultExcludedApps, <<>>, << <<"w", "a", "r", "p">>, <<"W", "A", "R", "P">> >>}

FilterInit ==
    /\ StoreInit
    /\ ConnInit
    /\ MonIdle
    /\ LoopIdle
    /\ wrapped = FALSE
    /\ MacIdle
    /\ ManagerIdle
    /\ filt \in {PrivacyFilterWithConfig(c) : c \in FilterInputs}
    /\ excluded_apps \in ExclusionLists
    /\ f_last = FilterNotCalled
    /\ inbox = <<>>
    /\ coord = CoordWaiting

FilterNext ==
    \/ \E content \in FilterContents : FilterCall(content)
    \/ \E app_name \in AppNames : IsAppExcludedCall(app_name)
    \/ \E app_name \in AppNames : ExcludeApp(app_name)
    \/ \E app_name \in AppNames : UnexcludeApp(app_name)

SpecFilter == FilterInit /\ [][FilterNext]_vars

----------------------------------------------------------------------------
(* C1: after any sequence of insert, delete and prune calls on one store   *)
(* no two rows share a content_hash; insert(c) returns None and adds no    *)
(* row when a row with c.content_hash exists anywhere in the table, and    *)
(* otherwise adds exactly one row and returns its new id.                  *)
C1_InsertDedup ==
    /\ \A r1, r2 \in rows : r1.content_hash = r2.content_hash => r1 = r2
    /\ st_last.op = "insert" =>
         IF \E r \in st_before : r.content_hash = st_last.arg.content_hash
         THEN st_last.ret = None /\ rows = st_before
         ELSE /\ st_last.ret.tag = "Some"
              /\ st_last.ret.val \notin Ids(st_before)
              /\ Cardinality(rows) = Cardinality(st_before) + 1
              /\ \E r \in rows \ st_before :
                    /\ r.id = st_last.ret.val
                    /\ r.content_hash = st_last.arg.content_hash
                    /\ rows = st_before \cup {r}

\* A duplicate of a row that is not the newest one was refused, after a
\* delete or prune has already removed some row.
C1_Witness ==
    /\ st_last.op = "insert"
    /\ st_last.ret = None
    /\ \E r \in rows : /\ r.content_hash = st_last.arg.content_hash
                       /\ \E q \in rows : q.id > r.id
    /\ Cardinality(rows) < seq

----------------------------------------------------------------------------
(* C2: two inserts with the same content_hash running concurrently on two  *)
(* handles of one database are atomic with respect to each other: exactly  *)
(* one returns Some(id), the other None, and exactly one row with that     *)
(* hash exists afterwards. (No row is deleted under SpecStoreShared, so    *)
(* two returned ids for one hash are two rows.)                            *)
C2_AtomicInsert ==
    /\ \A r1, r2 \in rows : r1.content_hash = r2.content_hash => r1 = r2
    /\ \A g, h \in Handles :
         (/\ g # h
          /\ conn[g].pc = "idle" /\ conn[g].ret.tag = "Some"
          /\ conn[h].pc = "idle" /\ conn[h].ret.tag = "Some")
         => conn[g].arg.content_hash # conn[h].arg.content_hash

----------------------------------------------------------------------------
(* C3: a sample yields a capture iff it passes the length policy and the   *)
(* hash of its processed content (the sample cut to max_content_length     *)
(* bytes) differs from last_hash.                                          *)
C3_CaptureIffChanged ==
    m_last.called =>
        (m_last.ret.tag = "Some"
         <=> /\ Len(m_last.sample) >= mon.min_content_length
             /\ m_last.prev_hash #
                  Some(Hash(BytePrefix(m_last.sample, mon.max_content_length))))

----------------------------------------------------------------------------
(* C4: every capture a monitor emits has content_hash = hash(content),     *)
(* where content is the sample cut to max_content_length bytes; the hash   *)
(* is not that of a longer, pre-truncation sample, and last_hash holds the *)
(* same value.                                                             *)
C4_HashOfEmittedContent ==
    (m_last.called /\ m_last.ret.tag = "Some") =>
        LET capture == m_last.ret.val
        IN  /\ capture.content = BytePrefix(m_last.sample, mon.max_content_length)
            /\ capture.content_hash = Hash(capture.content)
            /\ mon.last_hash = Some(capture.content_hash)
            /\ Len(m_last.sample) > mon.max_content_length
                 => capture.content_hash # Hash(m_last.sample)

\* A truncated sample was emitted.
C4_Witness ==
    /\ m_last.called
    /\ m_last.ret.tag = "Some"
    /\ Len(m_last.sample) > mon.max_content_length
    /\ mon.max_content_length > 0

----------------------------------------------------------------------------
(* C5: the minimum-length check is made on the untruncated sample before   *)
(* truncation: a sample shorter than min_content_length yields no capture  *)
(* whatever max_content_length is; a sample of at least min_content_length *)
(* and more than max_content_length bytes is cut to exactly its first      *)
(* max_content_length bytes; any other sample is kept whole. (The content  *)
(* shows in the capture, whenever the sample is not a skipped password     *)
(* field and is not suppressed as unchanged.)                              *)
C5_MinBeforeTruncate ==
    m_last.called =>
        LET len == Len(m_last.sample)
            cut == BytePrefix(m_last.sample, mon.max_content_length)
        IN  /\ len < mon.min_content_length => m_last.ret = None
            /\ (/\ len >= mon.min_content_length
                /\ ~(m_last.is_password /\ mon.skip_password_fields)
                /\ m_last.prev_hash # Some(Hash(cut)))
               => /\ m_last.ret.tag = "Some"
                  /\ m_last.ret.val.content = cut

----------------------------------------------------------------------------
----------------------------------------------------------------------------
\* The text in which each match of each pattern of the filter, taken in
\* order, is replaced by the placeholder.
RedactedText(f, content) ==
    RedactFrom(PatternsInOrder(f), 1, content, <<>>, f.config.redaction_placeholder).result

(* C7: no row of the store holds a content that the filter classifies as   *)
(* Blocked, at any point of any interleaving of emissions, filtering and   *)
(* inserts; with the filter enabled in Block mode, no row holds a content  *)
(* that one of the filter's patterns, built-in or custom, matches.         *)
C7_BlockedNeverStored ==
    /\ \A r \in rows : Filter(filt, r.content).tag # "Blocked"
    /\ coord.result # None /\ coord.result.val.tag = "Blocked"
         => /\ coord.forwarded = None
            /\ coord.pc = "recv"
            /\ \A r \in rows : r.content # coord.capture.val.content
    /\ (filt.config.enabled /\ filt.config.mode = "Block")
         => \A r \in rows : \A i \in 1..Len(PatternsInOrder(filt)) :
                ~PatternMatches(PatternsInOrder(filt)[i].lang, r.content)

\* The coordinator has dropped a capture that a custom pattern blocks, while
\* the store holds other captures.
C7_Witness ==
    /\ coord.pc = "recv"
    /\ coord.result = Some(Blocked("custom_0"))
    /\ rows # {}

----------------------------------------------------------------------------
(* C8: when the filter returns Redacted for a capture, the capture reaches *)
(* the store with the redacted text as content and the hash of the         *)
(* redacted text, which is not the hash of the original, as content_hash:  *)
(* the insert is refused iff a row with the hash of the redacted text      *)
(* exists, and otherwise adds exactly that row.                            *)
C8_RedactedStored ==
    /\ \A r \in rows : r.content_hash = Hash(r.content)
    /\ (coord.pc = "recv" /\ coord.result # None /\ coord.result.val.tag = "Redacted") =>
         LET original == coord.capture.val
             redacted == RedactedText(filt, original.content)
         IN  /\ coord.result.val.content = redacted
             /\ Hash(redacted) # original.content_hash
             /\ IF \E r \in st_before : r.content_hash = Hash(redacted)
                THEN coord.ret = Some(None) /\ rows = st_before
                ELSE /\ coord.ret.val.tag = "Some"
                     /\ \E r \in rows \ st_before :
                          /\ r.id = coord.ret.val.val
                          /\ r.content = redacted
                          /\ r.content_hash = Hash(redacted)
                          /\ r.timestamp = original.timestamp
                          /\ r.source_app = original.source_app
                          /\ r.capture_type = original.capture_type
                          /\ rows = st_before \cup {r}

\* A redacted capture was refused as the duplicate of a stored row that
\* holds its redacted text.
C8_Witness ==
    /\ coord.pc = "recv"
    /\ coord.result # None
    /\ coord.result.val.tag = "Redacted"
    /\ coord.ret = Some(None)
    /\ \E r \in rows : /\ r.content = coord.result.val.content
                       /\ r.content # coord.capture.val.content

----------------------------------------------------------------------------
\* start() has returned Ok(()) with the running flag false: the monitor's
\* own start, and the adapter's when the monitor runs under one.
StartReturnedOk ==
    /\ lp = "returned_ok"
    /\ ~running
    /\ wrapped => (a_lp = "returned_ok" /\ ~a_running)

\* The receiver of the channel handed to start() by the user is gone.
OutputReceiverDropped == IF wrapped THEN ~out_alive ELSE ~rx_alive

\* The monitor's max_content_length cuts none of the samples of LoopTexts.
CutsNoSample == \A t \in LoopTexts : Len(t) <= mon.max_content_length

(* C9: if stop() is called, on the monitor or on one of its handles, while *)
(* the polling loop is running, the loop eventually exits, is_running()    *)
(* becomes false and start() returns.                                      *)
C9_StopTerminates ==
    stop_req ~> StartReturnedOk

----------------------------------------------------------------------------
----------------------------------------------------------------------------
\* The accessibility permission is missing for a monitor that needs it.
PermissionMissing == mon.kind = "accessibility" /\ ~perm

----------------------------------------------------------------------------
(* C12: stop() is idempotent. After one or more stop() calls, on the       *)
(* monitor or on clones of its handle, in any interleaving with the loop,  *)
(* the running flag of what was stopped is false, as after a single call;  *)
(* a stop() call changes nothing but that flag, and nothing at all when    *)
(* the flag is already false.                                              *)
C12_StopIdempotent ==
    /\ [](stops > 0 => /\ (~wrapped => ~running)
                       /\ (wrapped => ~a_running)
                       /\ ((wrapped /\ mon.kind = "clipboard") => ~running))
    /\ [][(Stop =>
             (/\ UNCHANGED <<mon, lp, pending, chan, rx_alive, exit_cause>>
              /\ (~running => UNCHANGED running)))
          /\ ((MacStop \/ MacHandleStop) =>
             (/\ UNCHANGED <<mon, lp, a_lp, pending, chan, rx_alive, fwd, out,
                             capture_count, exit_cause>>
              /\ ((~running /\ ~a_running) => UNCHANGED <<running, a_running>>)))]_vars

\* stop() was called more than once while the loop had not yet seen the
\* first call.
C12_Witness ==
    /\ stops = MaxStops
    /\ ~running
    /\ InLoop

----------------------------------------------------------------------------
(* C13: start() of the accessibility monitor and of its Mac adapter,       *)
(* called while the permission is not granted, returns the permission      *)
(* error at once: the running flag is not set, no sample is taken          *)
(* (last_hash is untouched, the loop is not entered) and no capture is     *)
(* sent or counted.                                                        *)
C13_StartWithoutPermission ==
    [][((StartCall /\ PermissionMissing) =>
          (/\ lp' = "returned_err"
           /\ exit_cause' = "no_permission"
           /\ chan' \in {chan, <<>>}
           /\ UNCHANGED <<running, mon, pending>>))
       /\ ((MacStart /\ PermissionMissing) =>
          (/\ a_lp' = "returned_err"
           /\ UNCHANGED <<a_running, running, lp, mon, pending, fwd, chan, out,
                          capture_count>>))]_vars

\* start() of an accessibility monitor has failed on the permission check.
C13_Witness ==
    /\ mon.kind = "accessibility"
    /\ ~perm
    /\ lp = "returned_err"
    /\ exit_cause = "no_permission"
    /\ ~running

----------------------------------------------------------------------------
(* C14: when the accessibility monitor samples while the permission is     *)
(* revoked, the sample returns PermissionDenied, whatever the focused      *)
(* field holds: nothing is emitted, last_hash is untouched, the loop is    *)
(* left instead of polling again, and start() then returns with running =  *)
(* false.                                                                  *)
C14_RevokedPermissionStops ==
    /\ [][(LoopTick /\ PermissionMissing) =>
             (/\ lp' = "exit"
              /\ exit_cause' = "denied"
              /\ UNCHANGED <<mon, pending, chan>>)]_vars
    /\ (lp = "exit" /\ exit_cause = "denied") ~> (StartReturnedOk /\ exit_cause = "denied")

\* The loop of a running accessibility monitor was left after the permission
\* had been revoked, and start() has returned.
C14_Witness ==
    /\ mon.kind = "accessibility"
    /\ ~perm
    /\ exit_cause = "denied"
    /\ StartReturnedOk

----------------------------------------------------------------------------
(* C15: a sample that fails for another reason than a missing permission   *)
(* (the clipboard's AccessFailed, the accessibility FocusedElementError) is *)
(* not escalated: the loop goes back to its head with the running flag as  *)
(* it was, last_hash untouched and nothing emitted, and start() returns an *)
(* error only when the permission was missing at the call.                 *)
C15_FailedSampleNotEscalated ==
    /\ [][(LoopTick /\ sampled' = "Err" /\ ~PermissionMissing) =>
             (/\ lp' = "top"
              /\ UNCHANGED <<mon, running, pending, chan, out, exit_cause>>)]_vars
    /\ [](lp = "returned_err" => exit_cause = "no_permission")

\* A sample has failed, the monitor is still running and the loop is at its
\* head again, for either kind of monitor.
C15_Witness ==
    /\ sampled = "Err"
    /\ lp = "top"
    /\ running
    /\ mon.last_hash # None

----------------------------------------------------------------------------
(* C16: the consumer of a monitor's output channel, also behind a Mac       *)
(* adapter, receives the captures in the order of their detection: the     *)
(* timestamp of a received capture is never before that of the capture     *)
(* received just before it.                                                *)
C16_ReceivedInDetectionOrder == recvd[1] <= recvd[2]

----------------------------------------------------------------------------
(* C17: a send on a full channel waits. The channels never hold more than   *)
(* their capacity; the capture a loop or a forwarding task is sending      *)
(* leaves its hands only into the channel, or when the receiver is gone;   *)
(* a channel whose receiver lives loses captures only to that receiver;    *)
(* and while a capture is being sent the loop takes no sample.             *)
C17_SendWaitsForRoom ==
    /\ [](Len(chan) <= ChanCap /\ Len(out) <= OutCap)
    /\ [](pending # None <=> lp = "send")
    /\ [][/\ ((pending # None /\ pending' = None /\ rx_alive) =>
                 (Len(chan) < ChanCap /\ chan' = Append(chan, pending.val)))
           /\ ((fwd.data # None /\ fwd'.data = None /\ out_alive) =>
                 (Len(out) < OutCap /\ out' = Append(out, fwd.data.val)))
           /\ ((chan' # chan /\ rx_alive /\ rx_alive') =>
                 ((pending # None /\ chan' = Append(chan, pending.val))
                  \/ (chan # <<>> /\ chan' = Tail(chan))))
           /\ ((out' # out /\ out_alive /\ out_alive') =>
                 ((fwd.data # None /\ out' = Append(out, fwd.data.val))
                  \/ (out # <<>> /\ out' = Tail(out))))
           /\ (pending # None => (~LoopTick /\ UNCHANGED <<mon, sampled>>))]_vars

\* A capture was detected while the channel is full and its receiver alive:
\* the loop stands at its send.
C17_Witness ==
    /\ lp = "send"
    /\ pending # None
    /\ rx_alive
    /\ Len(chan) = ChanCap
    /\ running

----------------------------------------------------------------------------
(* C18: when stop_all of a manager that holds handles returns, every       *)
(* handle is signalled and the polling loop of the managed monitor has     *)
(* been left: it is not running any more.                                  *)
C18_StopAllWaitsForLoops ==
    [][(StopAll /\ handles # <<>>) => (~AnyRunning' /\ ~InLoop' /\ ~running')]_vars

----------------------------------------------------------------------------
(* C19: last_hash is reset by a restart. When start() begins a polling     *)
(* loop, the first one or one after a stop() has ended the run before,     *)
(* every sample that passes                                                *)
(* the length policy would be emitted if it were the next one, whatever    *)
(* was emitted before. (The samples in between that emit nothing leave     *)
(* last_hash as start() left it.)                                          *)
C19_RestartResetsLastHash ==
    [][(StartCall /\ lp' = "top" /\ exit_cause \in {"none", "stop"}) =>
         \A s \in Samples :
            (s.tag = "Text" /\ Len(s.text) >= mon.min_content_length) =>
               (IF mon.kind = "clipboard"
                THEN ClipboardCheck(mon', s)
                ELSE AccessibilityCheck(mon', s, TRUE)).ret # None]_vars

----------------------------------------------------------------------------
(* C20: prune_keep_recent(n) on a table of c rows deletes max(0, c - n)    *)
(* rows and returns that number; the rows that remain are rows of the      *)
(* table, min(n, c) of them, each at least as new as every deleted row;    *)
(* with c <= n the table is left as it was and 0 is returned.              *)
C20_PruneKeepsNewest ==
    st_last.op = "prune_keep_recent" =>
        LET n == st_last.arg
            c == Cardinality(st_before)
            gone == st_before \ rows
        IN  /\ st_last.ret = (IF c > n THEN c - n ELSE 0)
            /\ rows \subseteq st_before
            /\ Cardinality(gone) = st_last.ret
            /\ Cardinality(rows) = (IF c > n THEN n ELSE c)
            /\ \A k \in rows : \A r \in gone : k.timestamp >= r.timestamp
            /\ (c <= n => rows = st_before)

\* A prune that kept one row of three with different timestamps.
C20_Witness ==
    /\ st_last.op = "prune_keep_recent"
    /\ st_last.arg = 1
    /\ st_last.ret = 2
    /\ \E r \in st_before \ rows : \E k \in rows : k.timestamp > r.timestamp

----------------------------------------------------------------------------
----------------------------------------------------------------------------
(* C22: delete(id) returns true iff the table held a row with that id;     *)
(* then that row, and only that row, is gone and get(id) returns None;     *)
(* otherwise it returns false and the table is as it was. The other rows   *)
(* are read by get as before.                                              *)
C22_DeleteRemovesOneRow ==
    st_last.op = "delete" =>
        LET id == st_last.arg
            existed == \E r \in st_before : r.id = id
        IN  /\ st_last.ret = existed
            /\ Get(rows, id) = None
            /\ rows \subseteq st_before
            /\ Cardinality(st_before \ rows) = (IF existed THEN 1 ELSE 0)
            /\ \A other \in (1..MaxId) \ {id} : Get(rows, other) = Get(st_before, other)
            /\ (~existed => rows = st_before)

\* A delete that removed one row of several.
C22_Witness ==
    /\ st_last.op = "delete"
    /\ st_last.ret = TRUE
    /\ Cardinality(rows) >= 2
    /\ \E r \in rows : r.id > st_last.arg

----------------------------------------------------------------------------
(* C23: each read path returns at most limit rows of the table, no row     *)
(* twice, each satisfying the query's predicate (for search: the content   *)
(* contains the query, letters compared without case), newest first, and   *)
(* no row that satisfies the predicate and was left out is newer than a    *)
(* returned one or is missing while the limit is not reached.              *)

\* part occurs in text, ASCII letters compared without case.
Contains(text, part) ==
    \E i \in 0..(Len(text) - Len(part)) :
        \A j \in 1..Len(part) : Fold(text[i + j]) = Fold(part[j])

\* The predicate of the read st_last on a row.
Satisfies(r) ==
    IF st_last.op = "get_recent" THEN TRUE
    ELSE IF st_last.op = "get_by_app" THEN r.source_app = Some(st_last.arg)
    ELSE IF st_last.op = "get_by_type" THEN r.capture_type = st_last.arg
    ELSE IF st_last.op = "search" THEN Contains(r.content, st_last.arg)
    ELSE r.timestamp >= st_last.arg[1] /\ r.timestamp <= st_last.arg[2]

ReadOps == {"get_recent", "get_by_app", "get_by_type", "search", "get_by_time_range"}

C23_ReadsNewestFirst ==
    st_last.op \in ReadOps =>
        LET ret == st_last.ret
            matching == {r \in st_before : Satisfies(r)}
            got == {r \in st_before : \E i \in DOMAIN ret : ret[i] = RowToCapture(r)}
        IN  /\ Len(ret) <= st_last.limit
            /\ \A i \in DOMAIN ret : \E r \in matching : ret[i] = RowToCapture(r)
            /\ \A i, j \in DOMAIN ret : i < j =>
                  (ret[i] # ret[j] /\ ret[i].timestamp >= ret[j].timestamp)
            /\ \A r \in matching \ got :
                  /\ Len(ret) = st_last.limit
                  /\ \A k \in got : k.timestamp >= r.timestamp

----------------------------------------------------------------------------
(* C24: initialize_schema on a store whose version is below                *)
(* CURRENT_VERSION runs the migrations of the versions above the stored    *)
(* one up to CURRENT_VERSION, in ascending order, and leaves the stored    *)
(* version at CURRENT_VERSION; on a store that is at CURRENT_VERSION it    *)
(* runs none and alters no row, no table and not the version.              *)
C24_MigrationsToCurrent ==
    st_last.op = "initialize_schema" =>
        LET before == GetSchemaVersion(st_last.arg)
        IN  /\ version = Some(CURRENT_VERSION)
            /\ rows = st_before
            /\ schema = SCHEMA_STATEMENTS
            /\ before < CURRENT_VERSION =>
                  migrated = st_last.ran \o [i \in 1..(CURRENT_VERSION - before) |-> before + i]
            /\ before = CURRENT_VERSION =>
                  /\ migrated = st_last.ran
                  /\ st_last.had = schema
                  /\ st_last.arg = version

\* A new database was opened, which ran its migrations, and was opened
\* again when it held rows.
C24_Witness ==
    /\ st_last.op = "initialize_schema"
    /\ st_last.arg = Some(CURRENT_VERSION)
    /\ migrated = <<CURRENT_VERSION>>
    /\ rows # {}

----------------------------------------------------------------------------
\* The patterns of the configuration that the filter has loaded: the
\* built-in ones when they are in use, and the custom ones that compile, in
\* the order of the configuration.
LoadedBuiltin == IF filt.config.use_builtin_patterns THEN BuiltinPatterns ELSE <<>>
LoadedCustom == SelectSeq(filt.config.custom_patterns, IsValid)

FilterCalledIn(mode) ==
    f_last.op = "filter" /\ filt.config.enabled /\ filt.config.mode = mode

(* C25: in Block mode with the filter enabled, filter(content) returns     *)
(* Blocked with the name of the first pattern that matches, the built-in   *)
(* patterns in declaration order before the custom patterns in             *)
(* configuration order, and Passed iff no pattern matches.                 *)
C25_BlockNamesFirstMatch ==
    FilterCalledIn("Block") =>
        LET b == {i \in DOMAIN LoadedBuiltin : PatternMatches(LoadedBuiltin[i].lang, f_last.arg)}
            c == {i \in DOMAIN LoadedCustom : PatternMatches(LoadedCustom[i].lang, f_last.arg)}
        IN  /\ f_last.ret = Passed <=> (b = {} /\ c = {})
            /\ b # {} => \E i \in b : /\ \A j \in b : i <= j
                                      /\ f_last.ret = Blocked(LoadedBuiltin[i].name)
            /\ (b = {} /\ c # {}) =>
                  \E i \in c : /\ \A j \in c : i <= j
                               /\ f_last.ret = Blocked("custom_" \o ToString(i - 1))

\* A content that two built-in patterns and a custom pattern match was blocked.
C25_Witness ==
    /\ FilterCalledIn("Block")
    /\ f_last.ret.tag = "Blocked"
    /\ Cardinality({i \in DOMAIN LoadedBuiltin :
                       PatternMatches(LoadedBuiltin[i].lang, f_last.arg)}) >= 2
    /\ \E i \in DOMAIN LoadedCustom : PatternMatches(LoadedCustom[i].lang, f_last.arg)

----------------------------------------------------------------------------
\* The text the k-th loaded pattern is tested on in Redact mode: the content
\* after the patterns before it.
RECURSIVE TextBefore(_, _, _, _)
TextBefore(all, content, placeholder, k) ==
    IF k = 1 THEN content
    ELSE LET t == TextBefore(all, content, placeholder, k - 1)
         IN  IF PatternMatches(all[k - 1].lang, t)
             THEN PatternRedact(all[k - 1].lang, t, placeholder)
             ELSE t

(* C26, as the code has it: in Redact mode the patterns are taken in order *)
(* (built-in, then custom), each on the text the patterns before it have   *)
(* left: a pattern that matches that text has all its matches in it        *)
(* replaced by the placeholder and its name added to redacted_patterns;    *)
(* the first pattern that matches the content is always among them, and    *)
(* the result is Passed iff no pattern matches the content.                *)
C26_RedactsInTurn ==
    FilterCalledIn("Redact") =>
        LET all == PatternsInOrder(filt)
            ph == filt.config.redaction_placeholder
            matching == {k \in DOMAIN all : PatternMatches(all[k].lang, f_last.arg)}
            fired == {k \in DOMAIN all :
                         PatternMatches(all[k].lang, TextBefore(all, f_last.arg, ph, k))}
            ret == f_last.ret
        IN  /\ ret = Passed <=> matching = {}
            /\ matching # {} =>
                  /\ ret.tag = "Redacted"
                  /\ ret.content = TextBefore(all, f_last.arg, ph, Len(all) + 1)
                  /\ Len(ret.redacted_patterns) = Cardinality(fired)
                  /\ \A i, j \in DOMAIN ret.redacted_patterns : i < j =>
                        \E a, d \in fired : /\ a < d
                                            /\ ret.redacted_patterns[i] = all[a].name
                                            /\ ret.redacted_patterns[j] = all[d].name
                  /\ \E k \in matching : /\ \A j \in matching : k <= j
                                          /\ ret.redacted_patterns[1] = all[k].name
                  /\ \A k \in fired : ~PatternMatches(all[k].lang, ret.content)

\* Two patterns were named, and a third that matches the content was not.
C26_Witness ==
    /\ FilterCalledIn("Redact")
    /\ f_last.ret.tag = "Redacted"
    /\ Len(f_last.ret.redacted_patterns) >= 2
    /\ \E k \in DOMAIN PatternsInOrder(filt) :
          /\ PatternMatches(PatternsInOrder(filt)[k].lang, f_last.arg)
          /\ \A i \in DOMAIN f_last.ret.redacted_patterns :
                f_last.ret.redacted_patterns[i] # PatternsInOrder(filt)[k].name

\* C26, as the claim has it: every pattern that matches the content is
\* named in redacted_patterns and matches the result no more, and the
\* result is Passed iff no pattern matches the content.
C26_RedactNamesEveryMatch ==
    FilterCalledIn("Redact") =>
        LET all == PatternsInOrder(filt)
            matching == {k \in DOMAIN all : PatternMatches(all[k].lang, f_last.arg)}
        IN  /\ f_last.ret = Passed <=> matching = {}
            /\ \A k \in matching :
                  /\ f_last.ret.tag = "Redacted"
                  /\ ~PatternMatches(all[k].lang, f_last.ret.content)
                  /\ \E i \in DOMAIN f_last.ret.redacted_patterns :
                        f_last.ret.redacted_patterns[i] = all[k].name

----------------------------------------------------------------------------
(* C27: with enabled = false, filter(content) returns Passed for every     *)
(* content, in each of the three modes, with and without custom patterns.  *)
C27_DisabledPasses ==
    (f_last.op = "filter" /\ ~filt.config.enabled) => f_last.ret = Passed

\* A disabled filter with custom patterns passed a content that a built-in
\* and a custom pattern match.
C27_Witness ==
    /\ f_last.op = "filter"
    /\ ~filt.config.enabled
    /\ filt.config.mode = "Redact"
    /\ f_last.ret = Passed
    /\ \E i \in DOMAIN LoadedBuiltin : PatternMatches(LoadedBuiltin[i].lang, f_last.arg)
    /\ \E i \in DOMAIN LoadedCustom : PatternMatches(LoadedCustom[i].lang, f_last.arg)

----------------------------------------------------------------------------
(* C28: in WarnOnly mode filter(content) returns Passed for every content, *)
(* never Blocked and never Redacted: no changed content is returned,       *)
(* whichever patterns match.                                               *)
C28_WarnOnlyPasses ==
    FilterCalledIn("WarnOnly") =>
        /\ f_last.ret = Passed
        /\ f_last.ret.tag \notin {"Blocked", "Redacted"}
        /\ DOMAIN f_last.ret = {"tag"}

\* In WarnOnly mode a content that a built-in and a custom pattern match
\* was passed.
C28_Witness ==
    /\ FilterCalledIn("WarnOnly")
    /\ f_last.ret = Passed
    /\ \E i \in DOMAIN LoadedBuiltin : PatternMatches(LoadedBuiltin[i].lang, f_last.arg)
    /\ \E i \in DOMAIN LoadedCustom : PatternMatches(LoadedCustom[i].lang, f_last.arg)

----------------------------------------------------------------------------
\* The configuration without the custom patterns that do not compile
WithoutInvalid(config) ==
    [config EXCEPT !.custom_patterns = SelectSeq(config.custom_patterns, IsValid)]

(* C29: a custom pattern that does not compile is dropped when the filter  *)
(* is built, which cannot fail, and every content is classified as by the  *)
(* filter built from the configuration without that pattern.               *)
C29_InvalidPatternDropped ==
    /\ Len(filt.custom_regexes) = Len(LoadedCustom)
    /\ f_last.op = "filter" =>
          f_last.ret = Filter(PrivacyFilterWithConfig(WithoutInvalid(filt.config)), f_last.arg)

\* A filter configured with a pattern that does not compile before one that
\* does has blocked a content on the second.
C29_Witness ==
    /\ FilterCalledIn("Block")
    /\ Len(filt.config.custom_patterns) >= 2
    /\ ~filt.config.custom_patterns[1].valid
    /\ f_last.ret = Blocked("custom_0")

----------------------------------------------------------------------------
\* A name with its ASCII letters in lower case
Lowered(name) == [i \in DOMAIN name |-> ToAsciiLowercase(name[i])]

\* Some entry of the list is the name, ASCII case aside
Listed(list, name) == \E i \in DOMAIN list : Lowered(list[i]) = Lowered(name)

(* C30: is_app_excluded(name) is true iff an entry of the exclusion list   *)
(* equals the name with ASCII case ignored (an entry that only contains    *)
(* the name does not count); exclude_app(name) adds the name only when it  *)
(* is not excluded already; after unexclude_app(name) the name is not      *)
(* excluded; whatever calls came before.                                   *)
C30_ExclusionList ==
    /\ f_last.op = "is_app_excluded" => f_last.ret = Listed(excluded_apps, f_last.arg)
    /\ f_last.op = "exclude_app" =>
          /\ excluded_apps = IF Listed(f_last.before, f_last.arg)
                             THEN f_last.before
                             ELSE Append(f_last.before, f_last.arg)
          /\ IsAppExcluded(excluded_apps, f_last.arg)
    /\ f_last.op = "unexclude_app" =>
          /\ ~Listed(excluded_apps, f_last.arg)
          /\ ~IsAppExcluded(excluded_apps, f_last.arg)

\* After a name was added to the default list, a name that an entry begins
\* with was found not excluded.
C30_Witness ==
    /\ f_last.op = "is_app_excluded"
    /\ f_last.ret = FALSE
    /\ Len(excluded_apps) > Len(DefaultExcludedApps)
    /\ \E i \in DOMAIN excluded_apps :
          /\ Len(excluded_apps[i]) > Len(f_last.arg)
          /\ Lowered(SubSeq(excluded_apps[i], 1, Len(f_last.arg))) = Lowered(f_last.arg)

----------------------------------------------------------------------------
(* C31: with skip_password_fields = true a sample flagged is_password      *)
(* yields no capture and leaves last_hash as it was, whatever its content  *)
(* and length; with skip_password_fields = false it has the outcome of the *)
(* same sample without the flag (dropped, emitted, last_hash), and the     *)
(* capture that is emitted carries is_password_field = true.               *)
C31_PasswordFieldPolicy ==
    (m_last.called /\ mon.kind = "accessibility" /\ m_last.is_password) =>
        LET before == [mon EXCEPT !.last_hash = m_last.prev_hash, !.panicked = FALSE]
            plain == ProcessField(before, FocusedTextField(m_last.sample, None, FALSE))
        IN  IF mon.skip_password_fields
            THEN /\ m_last.ret = None
                 /\ mon.last_hash = m_last.prev_hash
            ELSE /\ mon.last_hash = plain.mon.last_hash
                 /\ m_last.ret.tag = plain.ret.tag
                 /\ m_last.ret.tag = "Some" =>
                       /\ m_last.ret.val.is_password_field = TRUE
                       /\ m_last.ret.val = [plain.ret.val EXCEPT !.is_password_field = TRUE]

\* A password sample that would have been emitted without the flag was
\* skipped by a monitor that had emitted a capture before.
C31_Witness ==
    /\ m_last.called
    /\ mon.kind = "accessibility"
    /\ m_last.is_password
    /\ mon.skip_password_fields
    /\ m_last.ret = None
    /\ mon.last_hash # None
    /\ Len(m_last.sample) >= mon.min_content_length
    /\ mon.last_hash # Some(Hash(BytePrefix(m_last.sample, mon.max_content_length)))

----------------------------------------------------------------------------
(* C32: stop() on the MacMonitorHandle of a running Mac adapter stops the  *)
(* monitor: the polling loop exits and start() returns. The loop can leave *)
(* only where it reads its flag, so the first check of the loop condition  *)
(* after a stop call on the running adapter has to leave the loop; a loop  *)
(* that passes it has nothing left that would stop it.                     *)
C32_HandleStopEndsLoop ==
    [][(LoopCheck /\ wrapped /\ stops > 0) => lp' = "exit"]_vars

----------------------------------------------------------------------------
(* C33: after stop_all() should_stop() is true for every handle that was   *)
(* added (a clone shares the signal of its handle) and any_running() is    *)
(* false; and any_running() follows the calls on the handles: it is true   *)
(* after a handle is added or reset, and after a stop() of one handle it   *)
(* is true iff another handle is not signalled.                            *)
C33_StopAllSignalsEveryHandle ==
    [][/\ StopAll => /\ \A i \in DOMAIN handles : handles'[i]
                     /\ Len(handles') = Len(handles)
                     /\ ~AnyRunning'
       /\ ManagerAdd => AnyRunning'
       /\ \A i \in DOMAIN handles :
             /\ HandleSet(i, FALSE) => AnyRunning'
             /\ HandleSet(i, TRUE) =>
                   (AnyRunning' <=> \E j \in DOMAIN handles : j # i /\ ~handles[j])]_vars

\* Every handle of a full manager is signalled and none counts as running.
C33_Witness ==
    /\ Len(handles) = MaxHandles
    /\ \A i \in DOMAIN handles : handles[i]
    /\ ~AnyRunning

----------------------------------------------------------------------------
(* C34: after stop() was called on a running monitor, the monitor takes at *)
(* most one more sample and emits at most one more capture: the loop reads *)
(* the flag at the top of each iteration only, so an iteration that has    *)
(* passed the check is taken to its end, its send included, and the next   *)
(* check leaves the loop.                                                  *)
C34_AtMostOneMoreSample ==
    /\ since_stop.samples <= 1
    /\ since_stop.emitted <= 1
    /\ (stop_req /\ lp \in {"top", "exit", "returned_ok"}) => ~running

\* A stop() reached the monitor at its tick wait; the sample it took then
\* was emitted, and the loop has ended.
C34_Witness ==
    /\ stop_req
    /\ since_stop = [samples |-> 1, emitted |-> 1]
    /\ lp = "returned_ok"
    /\ exit_cause = "stop"

----------------------------------------------------------------------------
(* C35: a stop() issued through a stop handle before start() has set the   *)
(* running flag is not lost: a start() that comes to its flag after such a *)
(* stop (the first start of the monitor, or under a Mac adapter the        *)
(* monitor's start after a stop issued since the adapter set its own       *)
(* flag) does not enter a polling loop that nothing will stop.             *)
C35_EarlyStopNotLost ==
    [][(StartCall /\ stops > 0 /\ (wrapped \/ lp = "init")) => lp' # "top"]_vars

----------------------------------------------------------------------------
(* C36: last_hash changes only when a capture is emitted: it is the hash   *)
(* of the capture the monitor returned last, whatever samples were dropped *)
(* since (too short, from a password field, failed, without text,          *)
(* unchanged), and a sample whose content is that of the last capture is   *)
(* dropped.                                                                *)
C36_LastHashOnlyOnEmit ==
    /\ mon.last_hash = IF m_last.emitted = None THEN None
                       ELSE Some(Hash(m_last.emitted.val))
    /\ m_last.called =>
          /\ m_last.ret.tag # "Some" => /\ mon.last_hash = m_last.prev_hash
                                       /\ m_last.emitted = m_last.prev_emitted
          /\ (/\ m_last.prev_emitted # None
              /\ Len(m_last.sample) <= mon.max_content_length
              /\ m_last.sample = m_last.prev_emitted.val) => m_last.ret = None

\* After a capture, a sample without text was followed by the captured
\* text again, which was dropped.
C36_Witness ==
    /\ m_last.called
    /\ m_last.ret = None
    /\ m_last.prev_emitted # None
    /\ m_last.sample = m_last.prev_emitted.val
    /\ Len(m_last.sample) >= mon.min_content_length
    /\ mon.kind = "clipboard"

----------------------------------------------------------------------------
(* C37: an insert that is refused as a duplicate leaves the store as it    *)
(* was: the row that holds the content keeps its id, timestamp, source_app *)
(* and capture_type, also when the duplicate comes later, from another     *)
(* application or with another capture_type.                               *)
C37_DuplicateLeavesRow ==
    (st_last.op = "insert" /\ st_last.ret = None) =>
        /\ rows = st_before
        /\ \E r \in st_before :
              /\ r.content_hash = st_last.arg.content_hash
              /\ Get(rows, r.id) = Get(st_before, r.id)
              /\ \A q \in rows : q.content_hash = r.content_hash =>
                    /\ q.id = r.id
                    /\ q.timestamp = r.timestamp
                    /\ q.source_app = r.source_app
                    /\ q.capture_type = r.capture_type

\* A duplicate that came later, from another application and with another
\* capture_type, was refused.
C37_Witness ==
    /\ st_last.op = "insert"
    /\ st_last.ret = None
    /\ \E r \in rows : /\ r.content_hash = st_last.arg.content_hash
                       /\ r.timestamp < st_last.arg.timestamp
                       /\ r.source_app # st_last.arg.source_app
                       /\ r.capture_type # st_last.arg.capture_type

----------------------------------------------------------------------------
(* C38: the ids returned by insert increase strictly over the life of the  *)
(* database and are never reused: no row carries the id of a row that was  *)
(* deleted or pruned, and a returned id is above the id of every row the   *)
(* table holds or ever held; inserting the content of a row that was       *)
(* deleted or pruned succeeds and returns such a new id.                   *)
C38_IdsNeverReused ==
    /\ \A r \in rows : \A g \in removed : r.id # g.id
    /\ \A r1, r2 \in rows : r1.id = r2.id => r1 = r2
    /\ st_last.op = "insert" =>
          /\ st_last.ret # None =>
                /\ \A r \in st_before : r.id < st_last.ret.val
                /\ \A g \in removed : g.id < st_last.ret.val
                /\ \E r \in rows : /\ r.id = st_last.ret.val
                                   /\ r.content_hash = st_last.arg.content_hash
          /\ (/\ \E g \in removed : g.content_hash = st_last.arg.content_hash
              /\ ~ \E r \in st_before : r.content_hash = st_last.arg.content_hash)
                => st_last.ret # None

\* The newest row was removed and its content inserted again: the insert
\* returned an id above the one the removed row had.
C38_Witness ==
    /\ st_last.op = "insert"
    /\ st_last.ret # None
    /\ \E g \in removed : /\ g.content_hash = st_last.arg.content_hash
                          /\ g.id + 1 = st_last.ret.val
                          /\ \A r \in st_before : r.id < g.id
    /\ st_before # {}

----------------------------------------------------------------------------
\* The captures a forwarding task has counted and not yet sent.
InHand(task) == IF task.data = None THEN 0 ELSE 1

(* C39: the capture_count of a Mac monitor never decreases, and it counts  *)
(* the captures its forwarding tasks have taken from the monitor: those    *)
(* delivered on the output channel, those whose send failed because the    *)
(* receiver was gone, and those a task holds for its send. It is never     *)
(* below the number delivered.                                             *)
C39_CountsTakenCaptures ==
    [][/\ capture_count' >= capture_count
       /\ capture_count' = sends'.delivered + sends'.failed + InHand(fwd') + InHand(old')
       /\ capture_count' >= sends'.delivered]_vars

\* Captures were delivered, one send failed, and no task holds a capture.
C39_Witness ==
    /\ wrapped
    /\ sends.delivered >= 1
    /\ sends.failed >= 1
    /\ InHand(fwd) + InHand(old) = 0
    /\ capture_count = sends.delivered + sends.failed

(* C39 as stated: capture_count equals the number of captures delivered on *)
(* the output channel, the captures a task still holds for its send set    *)
(* aside.                                                                  *)
C39_CountEqualsDelivered ==
    capture_count = sends.delivered + InHand(fwd) + InHand(old)

----------------------------------------------------------------------------
\* The adapter's start() is not in progress: never called, or returned.
StartNotInProgress == a_lp \in {"init", "returned_ok", "returned_err", "returned_already"}

(* C40: while a Mac monitor's status() reports is_running = false and its  *)
(* start() is not in progress, the polling loop is not active: the monitor *)
(* takes no sample and emits no capture until start() is called again.     *)
C40_NotRunningAndReturnedMeansIdle ==
    [][(wrapped /\ ~a_running /\ StartNotInProgress) =>
          /\ ~LoopCheck
          /\ ~LoopTick
          /\ ~LoopSend
          /\ lp \notin {"top", "tick", "send"}]_vars

\* start() has returned after a stop(): is_running is false and the loop is
\* over, having taken one more sample and emitted one more capture after
\* the stop, which is still on its way to the output channel.
C40_Witness ==
    /\ wrapped
    /\ ~a_running
    /\ a_lp = "returned_ok"
    /\ stops > 0
    /\ since_stop = [samples |-> 1, emitted |-> 1]
    /\ InHand(fwd) = 1

(* C40 as stated: while status() reports is_running = false the monitor    *)
(* takes no sample and no capture is delivered on its output channel.      *)
C40_NotRunningMeansIdle ==
    [][(wrapped /\ ~a_running) =>
          /\ ~LoopTick
          /\ sends'.delivered = sends.delivered]_vars

====
